---- MODULE Spec2Model ----
(***************************************************************************)
(* Durable state coordination and task lifecycle of the Discord community  *)
(* bot: the atomic JSON store (utils/atomicJson.js), the async mutex       *)
(* (utils/asyncMutex.js), the reminder file updates (reminderManager.js)   *)
(* and the timer registry (utils/timerManager.js).                         *)
(*                                                                         *)
(* One event loop runs several async tasks.  A task is a record with a     *)
(* program counter; every action is one run-to-completion segment of the   *)
(* code between two suspension points (an awaited file operation, an       *)
(* awaited promise).                                                       *)
(***************************************************************************)
EXTENDS Integers, Sequences, FiniteSets, TLC

(***************************************************************************)
(* Bounds of the model.                                                    *)
(***************************************************************************)
NTasks == 3
MaxLen == 1
MaxOps == 3
MaxStoreOps == 2
MaxArrivals == 4
MaxTimerOps == 4
MaxRetries == 6
MaxMarks == 15
MaxRemarks == 1
MaxFailMarks == 3
MaxItems == 4
MaxRestarts == 1
MaxChecks == 3
MaxTicks == 3
MaxCalls == 12
MaxSignals == 3
MaxText == 2
MaxFeed == 20
MaxElapse == 2
BurstLen == 9

Tasks == 1..NTasks

(***************************************************************************)
(* JSON documents.  A document is an array of reminder objects; an object  *)
(* is named by its id and is one token of the text.  A file holds a        *)
(* sequence of tokens.                                                     *)
(***************************************************************************)
AllItems == <<"r1", "r2", "r3", "r4", "r5", "r6">>
Items == {AllItems[i] : i \in 1..Len(AllItems)}
StoreItems == {"r1"}
Values == UNION {[1..n -> StoreItems] : n \in 0..MaxLen}

RECURSIVE Elements(_)
Elements(v) ==
    IF Len(v) = 0 THEN <<>>
    ELSE IF Len(v) = 1 THEN <<"\n  ", v[1]>>
    ELSE <<"\n  ", v[1], ",">> \o Elements(Tail(v))

\* JSON.stringify(data, null, 2)
JSONstringify(v) ==
    IF Len(v) = 0 THEN <<"[", "]">>
    ELSE <<"[">> \o Elements(v) \o <<"\n", "]">>

ParseFail == [ok |-> FALSE, val |-> <<>>]
ParseOk(v) == [ok |-> TRUE, val |-> v]

IsWhitespace(tok) == tok \in {"\n", "\n  "}

RECURSIVE ParseElements(_, _)
ParseElements(s, acc) ==
    IF Len(s) < 2 THEN ParseFail
    ELSE IF s[1] \notin Items THEN ParseFail
    ELSE IF s[2] = "]" THEN
        IF Len(s) = 2 THEN ParseOk(Append(acc, s[1])) ELSE ParseFail
    ELSE IF s[2] = "," THEN ParseElements(SubSeq(s, 3, Len(s)), Append(acc, s[1]))
    ELSE ParseFail

\* JSON.parse(text): a syntax error on anything that is not a complete array
JSONparse(text) ==
    LET s == SelectSeq(text, LAMBDA tok : ~IsWhitespace(tok)) IN
    IF Len(s) < 2 THEN ParseFail
    ELSE IF s[1] # "[" THEN ParseFail
    ELSE IF s[2] = "]" THEN
        IF Len(s) = 2 THEN ParseOk(<<>>) ELSE ParseFail
    ELSE ParseElements(Tail(s), <<>>)

ProperPrefixes(text) == {SubSeq(text, 1, k) : k \in 0..(Len(text) - 1)}

(***************************************************************************)
(* The files of one document.                                              *)
(***************************************************************************)
FilePath == "reminders.json"
TempPathInPlace(filePath) == filePath
TempPath(filePath) == "reminders.json.tmp"
BackupPath(filePath) == "reminders.json.bak"
FileNames == {FilePath, TempPath(FilePath), BackupPath(FilePath)}

NoFile == [exists |-> FALSE, data |-> <<>>]
File(text) == [exists |-> TRUE, data |-> text]
NoFiles == [f \in FileNames |-> NoFile]

\* the defaultValue parameter of readJsonWithRecovery
DefaultValue == <<"null">>

VARIABLES
    fs,          \* file name -> [exists, data]
    task,        \* task id -> record of the task's frame
    nops,        \* operations started so far
    committed,   \* values whose rename onto the main file completed, in order
    initDoc,     \* the document the files held when the process started
    prev,        \* task id -> summary of the operation the task completed before its current one
    locked,      \* Mutex.locked
    queue,       \* Mutex.queue: the tasks whose resolve functions are queued
    arrivals,    \* tasks in the order of their acquire() calls
    entered,     \* tasks in the order in which they entered fn
    timers,      \* TimerManager.timeouts / intervals / cronJobs: kind -> name -> handle (0: none)
    live,        \* the platform timers and cron jobs that are running
    nextId,      \* next platform handle
    isShuttingDown,
    ntimerops,
    last,        \* the latest call on the TimerManager or callback run by a timer
    sleeps,      \* the promises returned by TimerManager.sleep: [id, name, res]
    fetch,       \* the frame of the fetchWithRetry call
    posted,      \* postedItems.json: [exists, corrupt, data] and its backup bak
    postedItems, \* redditRssFeed.js postedItems: the Set, in insertion order
    marks,       \* the keys marked so far, per list, in the order of the marks
    published,   \* the number of posts the subreddit's feed lists
    poll,        \* the frame of initRedditFeed / checkForNewPosts
    emitted,     \* the posts sent to the channel, in order, with the process run
    restarts,    \* how many times the process was killed and started again
    now,         \* Date.now(), in milliseconds
    userRequests,\* RateLimiter.userRequests: key -> [present, timestamps, warned]
    blocked,     \* RateLimiter.blocked: userId -> unblockTime (0: not a key)
    calls,       \* the check calls made so far and what they returned
    nticks,      \* how many times the clock was advanced
    solo,        \* limiters that receive the calls of one actor, or of one key, only
    proc,        \* the process: shutdown.js isShuttingDown, handleShutdown's frame, exit
    cmd,         \* the frame of the /remindme command's execute
    cb,          \* reminder -> the frame of the timer callback /remindme registered for it
    minutes      \* Date.now() as /remindme sees it, in whole minutes

storeVars == <<fs, committed, initDoc>>
taskVars == <<task, nops, prev>>
mutexVars == <<locked, queue, arrivals, entered>>
timerVars == <<timers, live, nextId, isShuttingDown, ntimerops, last, sleeps>>
dedupVars == <<posted, postedItems, marks>>
pollVars == <<published, poll, emitted, restarts>>
rateVars == <<now, userRequests, blocked, calls, nticks, solo>>
botVars == <<proc, cmd, cb, minutes>>
appVars == <<fetch, dedupVars, pollVars, rateVars, botVars>>
vars == <<fs, committed, initDoc, task, nops, prev, locked, queue, arrivals, entered,
          timers, live, nextId, isShuttingDown, ntimerops, last, sleeps, fetch,
          posted, postedItems, marks, published, poll, emitted, restarts,
          now, userRequests, blocked, calls, nticks, solo, proc, cmd, cb,
          minutes>>

(***************************************************************************)
(* Task frames.  pc is the suspension point the task is waiting at; stack  *)
(* holds the continuations of the callers.  snapMain, snapBak, mainFault,  *)
(* bakFault, failed and thrown record what the environment did to the      *)
(* operation (they are not read by the code).                              *)
(***************************************************************************)
IdleTask ==
    [pc |-> "idle", op |-> "none", sync |-> FALSE, stack |-> <<>>,
     data |-> <<>>, dflt |-> <<>>, parsed |-> <<>>, item |-> "",
     out |-> "none", val |-> <<>>, err |-> "", mainErr |-> "",
     snapMain |-> NoFile, snapBak |-> NoFile,
     mainFault |-> FALSE, bakFault |-> FALSE, failed |-> "", cleanupFailed |-> FALSE,
     thrown |-> "", releases |-> 0, woken |-> FALSE, late |-> FALSE]

NoPrev == [op |-> "none", out |-> "none", val |-> <<>>, recovered |-> FALSE]

\* what is kept of a completed operation when the task starts its next one
Summary(fr) ==
    IF fr.pc # "done" THEN NoPrev
    ELSE [op |-> fr.op, out |-> fr.out,
          val |-> IF fr.op = "write" THEN fr.data ELSE fr.val,
          recovered |-> /\ fr.op = "read"
                        /\ ~fr.snapMain.exists
                        /\ fr.snapBak.exists
                        /\ JSONparse(fr.snapBak.data).ok
                        /\ ~fr.bakFault]

RECURSIVE Without(_, _)
\* reminders.filter(r => r.id !== reminderId)
Without(v, item) ==
    IF v = <<>> THEN <<>>
    ELSE (IF Head(v) = item THEN <<>> ELSE <<Head(v)>>) \o Without(Tail(v), item)

\* atomicJson.js 110-118: whatever writeJsonAtomic did, the failure of the restore
\* is only logged and parsed is returned.
RestoredPropagates(rest, fr) ==
    IF fr.out = "throw" THEN [rest EXCEPT !.out = "throw", !.err = fr.err]
    ELSE [rest EXCEPT !.out = "ret", !.val = fr.parsed, !.err = ""]
Restored(rest, fr) == [rest EXCEPT !.out = "ret", !.val = fr.parsed, !.err = ""]

\* asyncMutex.js 24-28: fn has returned (e = "") or thrown e; the finally block
\* runs release() on both paths.
SettledNoFinally(fr, e) ==
    IF e = "" THEN [fr EXCEPT !.pc = "release", !.thrown = e]
    ELSE [fr EXCEPT !.pc = "done", !.thrown = e, !.out = "throw", !.err = e]
Settled(fr, e) == [fr EXCEPT !.pc = "release", !.thrown = e]

\* Control returns from a callee (fr.out is "ret" or "throw") to the continuation
\* on top of the stack, and runs on to the next suspension point.
RECURSIVE Resume(_)
Resume(fr) ==
    IF fr.stack = <<>> THEN [fr EXCEPT !.pc = "done"]
    ELSE LET k == Head(fr.stack)
             rest == [fr EXCEPT !.stack = Tail(@)]
         IN CASE k = "r_restored" ->
                    Resume(Restored(rest, fr))
              [] k = "add_read" ->
                    \* reminderManager.js 113-115: reminders.push(reminder); writeJsonAtomic
                    [rest EXCEPT !.pc = "w_writeFile", !.data = Append(fr.val, fr.item),
                                 !.out = "none", !.stack = <<"add_written">> \o @]
              [] k = "add_written" ->
                    \* reminderManager.js 116-119: the error is logged and thrown again
                    Settled(rest, IF fr.out = "throw" THEN fr.err ELSE "")
              [] k = "remove_read" ->
                    \* reminderManager.js 97-98: reminders.filter(r => r.id !== reminderId);
                    \* writeJsonAtomic
                    [rest EXCEPT !.pc = "w_writeFile", !.data = Without(fr.val, fr.item),
                                 !.out = "none", !.stack = <<"remove_written">> \o @]
              [] k = "remove_written" ->
                    \* reminderManager.js 99-101: the error is logged and not thrown again
                    Settled(rest, "")
              [] k = "init_read" ->
                    \* reminderManager.js 149: the await of readJsonWithRecovery resumes
                    [rest EXCEPT !.pc = "init_read", !.val = fr.val, !.out = "none"]
              [] k = "init_written" ->
                    \* reminderManager.js 200-202: fn is the writeJsonAtomic call alone
                    Settled(rest, IF fr.out = "throw" THEN fr.err ELSE "")
              [] OTHER -> [rest EXCEPT !.pc = "done"]

(***************************************************************************)
(* writeJsonAtomic / writeJsonAtomicSync.  F is the set of outcomes the    *)
(* environment may give a file operation: "ok", "fail".                    *)
(***************************************************************************)
Busy(t) == task[t].pc \notin {"idle", "done"}

StartWrite(t, v, sync, max) ==
    /\ ~Busy(t)
    /\ nops < max
    /\ nops' = nops + 1
    /\ prev' = [prev EXCEPT ![t] = Summary(task[t])]
    /\ task' = [task EXCEPT ![t] =
                  [IdleTask EXCEPT !.pc = "w_writeFile", !.op = "write", !.sync = sync,
                                   !.data = v,
                                   !.snapMain = fs[FilePath],
                                   !.snapBak = fs[BackupPath(FilePath)]]]
    /\ UNCHANGED <<storeVars, mutexVars, timerVars, appVars>>

\* fs.writeFile(tempPath, jsonData): the file is opened and truncated
WriteFileOpen(t, F) ==
    /\ task[t].pc = "w_writeFile"
    /\ \E o \in F :
         IF o = "ok"
         THEN /\ fs' = [fs EXCEPT ![TempPath(FilePath)] = File(<<>>)]
              /\ task' = [task EXCEPT ![t].pc = "w_writing"]
         ELSE /\ fs' = fs
              /\ task' = [task EXCEPT ![t].pc = "w_unlink", ![t].err = "EACCES"]
    /\ UNCHANGED <<committed, initDoc, nops, prev, mutexVars, timerVars, appVars>>

\* fs.writeFile(tempPath, jsonData): the text is written, or only a part of it
WriteFileData(t, F) ==
    /\ task[t].pc = "w_writing"
    /\ \E o \in F :
         IF o = "ok"
         THEN /\ fs' = [fs EXCEPT ![TempPath(FilePath)] =
                                     File(JSONstringify(task[t].data))]
              /\ task' = [task EXCEPT ![t].pc = "w_access"]
         ELSE /\ \E part \in ProperPrefixes(JSONstringify(task[t].data)) :
                    fs' = [fs EXCEPT ![TempPath(FilePath)] = File(part)]
              /\ task' = [task EXCEPT ![t].pc = "w_unlink", ![t].err = "ENOSPC"]
    /\ UNCHANGED <<committed, initDoc, nops, prev, mutexVars, timerVars, appVars>>

\* fs.access(filePath) / fsSync.existsSync(filePath)
WriteAccess(t) ==
    /\ task[t].pc = "w_access"
    /\ task' = [task EXCEPT ![t].pc =
                  IF fs[FilePath].exists THEN "w_copy" ELSE "w_rename"]
    /\ UNCHANGED <<storeVars, nops, prev, mutexVars, timerVars, appVars>>

\* What a failed copyFile does to the frame.  The async version catches every
\* error of the access-and-copy block (lines 29-34); the sync version has no
\* inner try (lines 66-68).
CopyFailed(fr) ==
    IF fr.sync
    THEN [fr EXCEPT !.pc = "w_unlink", !.err = "EIO", !.failed = "copy"]
    ELSE [fr EXCEPT !.pc = "w_rename", !.failed = "copy"]

\* fs.copyFile(filePath, backupPath)
WriteCopy(t, F) ==
    /\ task[t].pc = "w_copy"
    /\ \E o \in F :
         IF o = "ok" /\ fs[FilePath].exists
         THEN /\ fs' = [fs EXCEPT ![BackupPath(FilePath)] = fs[FilePath]]
              /\ task' = [task EXCEPT ![t].pc = "w_rename"]
         ELSE /\ \E part \in {fs[BackupPath(FilePath)]}
                              \cup {File(p) : p \in ProperPrefixes(fs[FilePath].data)} :
                    fs' = [fs EXCEPT ![BackupPath(FilePath)] = part]
              /\ task' = [task EXCEPT ![t] = CopyFailed(task[t])]
    /\ UNCHANGED <<committed, initDoc, nops, prev, mutexVars, timerVars, appVars>>

\* fs.rename(tempPath, filePath): atomic
RenameSwapped(files, from, to) ==
    IF from = to THEN files
    ELSE [files EXCEPT ![from] = files[to], ![to] = NoFile]
Rename(files, from, to) ==
    IF from = to THEN files
    ELSE [files EXCEPT ![to] = files[from], ![from] = NoFile]

WriteRename(t, F) ==
    /\ task[t].pc = "w_rename"
    /\ \E o \in F :
         IF o = "ok" /\ fs[TempPath(FilePath)].exists
         THEN /\ fs' = Rename(fs, TempPath(FilePath), FilePath)
              /\ committed' = Append(committed, task[t].data)
              /\ task' = [task EXCEPT ![t] = Resume([task[t] EXCEPT !.out = "ret"])]
         ELSE /\ fs' = fs
              /\ committed' = committed
              /\ task' = [task EXCEPT ![t].pc = "w_unlink",
                                      ![t].err = IF fs[TempPath(FilePath)].exists
                                                 THEN "EPERM" ELSE "ENOENT",
                                      ![t].failed = "rename"]
    /\ UNCHANGED <<initDoc, nops, prev, mutexVars, timerVars, appVars>>

\* catch: fs.unlink(tempPath), its own failure ignored; then throw error
WriteUnlink(t, F) ==
    /\ task[t].pc = "w_unlink"
    /\ \E o \in F :
         /\ fs' = IF o = "ok" THEN [fs EXCEPT ![TempPath(FilePath)] = NoFile] ELSE fs
         /\ task' = [task EXCEPT ![t] = Resume([task[t] EXCEPT !.out = "throw",
                                                               !.cleanupFailed = (o # "ok")])]
    /\ UNCHANGED <<committed, initDoc, nops, prev, mutexVars, timerVars, appVars>>

(***************************************************************************)
(* readJsonWithRecovery / readJsonWithRecoverySync.                        *)
(***************************************************************************)
StartRead(t, sync, max) ==
    /\ ~Busy(t)
    /\ nops < max
    /\ nops' = nops + 1
    /\ prev' = [prev EXCEPT ![t] = Summary(task[t])]
    /\ task' = [task EXCEPT ![t] =
                  [IdleTask EXCEPT !.pc = "r_readMain", !.op = "read", !.sync = sync,
                                   !.dflt = DefaultValue,
                                   !.snapMain = fs[FilePath],
                                   !.snapBak = fs[BackupPath(FilePath)]]]
    /\ UNCHANGED <<storeVars, mutexVars, timerVars, appVars>>

\* The result of fs.readFile followed by JSON.parse: the parsed value or the error.
ReadAndParse(file, o) ==
    IF o # "ok" THEN [ok |-> FALSE, val |-> <<>>, code |-> "EIO"]
    ELSE IF ~file.exists THEN [ok |-> FALSE, val |-> <<>>, code |-> "ENOENT"]
    ELSE LET p == JSONparse(file.data) IN
         IF p.ok THEN [ok |-> TRUE, val |-> p.val, code |-> ""]
         ELSE [ok |-> FALSE, val |-> <<>>, code |-> "SyntaxError"]

\* lines 95-102
ReadMain(t, F) ==
    /\ task[t].pc = "r_readMain"
    /\ \E o \in F :
         LET r == ReadAndParse(fs[FilePath], o)
             fr == [task[t] EXCEPT !.mainFault = (o # "ok")] IN
         task' = [task EXCEPT ![t] =
                    IF r.ok THEN Resume([fr EXCEPT !.out = "ret", !.val = r.val])
                    ELSE [fr EXCEPT !.pc = "r_readBak", !.mainErr = r.code]]
    /\ UNCHANGED <<storeVars, nops, prev, mutexVars, timerVars, appVars>>

\* What readJsonWithRecovery does when the backup cannot be read or parsed
\* (lines 119-128): the default is returned.
BackupFailedThrows(fr, code) ==
    Resume([fr EXCEPT !.out = "throw", !.err = code])
BackupFailed(fr, code) ==
    Resume([fr EXCEPT !.out = "ret", !.val = fr.dflt])

\* lines 104-111: the backup is read and parsed, and writeJsonAtomic restores it
ReadBackup(t, F) ==
    /\ task[t].pc = "r_readBak"
    /\ \E o \in F :
         LET r == ReadAndParse(fs[BackupPath(FilePath)], o)
             fr == [task[t] EXCEPT !.bakFault = (o # "ok")] IN
         task' = [task EXCEPT ![t] =
                    IF r.ok
                    THEN [fr EXCEPT !.pc = "w_writeFile", !.parsed = r.val,
                                    !.data = r.val,
                                    !.stack = <<"r_restored">> \o @]
                    ELSE BackupFailed(fr, r.code)]
    /\ UNCHANGED <<storeVars, nops, prev, mutexVars, timerVars, appVars>>

\* The process is killed: every task is gone, the files stay as they are; a
\* writeFile in progress leaves a part of its text.
Kill ==
    /\ \E t \in Tasks : Busy(t)
    /\ \E t \in Tasks :
         /\ Busy(t)
         /\ IF task[t].pc = "w_writing"
            THEN \E part \in ProperPrefixes(JSONstringify(task[t].data)) :
                    fs' = [fs EXCEPT ![TempPath(FilePath)] = File(part)]
            ELSE fs' = fs
    /\ task' = [t \in Tasks |-> IdleTask]
    /\ prev' = [t \in Tasks |-> NoPrev]
    /\ locked' = FALSE
    /\ queue' = <<>>
    /\ UNCHANGED <<committed, initDoc, nops, arrivals, entered, timerVars, appVars>>

StoreStep(t, F) ==
    \/ WriteFileOpen(t, F)
    \/ WriteFileData(t, F)
    \/ WriteAccess(t)
    \/ WriteCopy(t, F)
    \/ WriteRename(t, F)
    \/ WriteUnlink(t, F)
    \/ ReadMain(t, F)
    \/ ReadBackup(t, F)

(***************************************************************************)
(* TimerManager.  timers[kind] is the Map of that kind (timeouts,          *)
(* intervals, cronJobs): name -> handle, 0 when the name is not a key.     *)
(* live holds the platform timers and cron jobs that have not been         *)
(* cancelled, stopped or (one-shot) fired: [id, kind, name, reg, over];    *)
(* reg tells that the registry recorded the handle, over is the handle it  *)
(* replaced (0: none).  last records the latest call or callback: what was *)
(* called, whether the registry was shutting down when it was called, the  *)
(* handle it returned (0: null or undefined) and the handles it cancelled. *)
(***************************************************************************)
Kinds == {"timeout", "interval", "cron"}
CallerNames == {"a", "b"}
RetryNames == <<"rss-retry-1", "rss-retry-2", "rss-retry-3", "rss-retry-4",
                "rss-retry-5", "rss-retry-6", "rss-retry-7">>
CheckName == "reddit-rss-check"
\* `reminder-${userId}_${reminderTime}`, remindme.js lines 108 and 128
ReminderName == "reminder-u1_1"
PostDelayNames == <<"rss-post-delay-0", "rss-post-delay-1", "rss-post-delay-2",
                    "rss-post-delay-3", "rss-post-delay-4", "rss-post-delay-5",
                    "rss-post-delay-6", "rss-post-delay-7", "rss-post-delay-8",
                    "rss-post-delay-9">>
\* `reminder-${reminder.id}`, reminderManager.js line 168
ReminderTimer(item) ==
    CASE item = "r1" -> ReminderName
      [] item = "r2" -> "reminder-r2"
      [] item = "r3" -> "reminder-r3"
      [] item = "r4" -> "reminder-r4"
      [] item = "r5" -> "reminder-r5"
      [] OTHER -> "reminder-r6"
Names == CallerNames \cup {RetryNames[i] : i \in 1..Len(RetryNames)}
             \cup {PostDelayNames[i] : i \in 1..Len(PostDelayNames)}
             \cup {CheckName} \cup {ReminderTimer(i) : i \in Items}

NoCall == [op |-> "none", kind |-> "none", name |-> "none", ret |-> 0,
           draining |-> FALSE, cancelled |-> {}]
Call(op, kind, name, ret, cancelled) ==
    [op |-> op, kind |-> kind, name |-> name, ret |-> ret,
     draining |-> isShuttingDown, cancelled |-> cancelled]

\* the handles the Maps hold
Tracked(tm) == {tm[k][n] : k \in Kinds, n \in Names} \ {0}

\* clearTimeout(id) / clearInterval(id) / job.stop() on the handle recorded
\* under the name, when the Map has the name (lines 32-34, 56-58, 82-84)
CancelOldForgotten(lv, id) == lv
CancelOld(lv, id) == {e \in lv : e.id # id}

\* setTimeout / setInterval / registerCron(name, ...): while shutting down the
\* call returns null (a cron job handed in was started by cron.schedule before
\* the call and is not stopped); otherwise the old handle of that kind and
\* name is cancelled and the new one recorded and returned.
Schedule(kind, name) ==
    /\ ntimerops < MaxTimerOps
    /\ ntimerops' = ntimerops + 1
    /\ nextId' = nextId + 1
    /\ IF isShuttingDown
       THEN /\ live' = IF kind = "cron"
                       THEN live \cup {[id |-> nextId, kind |-> kind, name |-> name,
                                        reg |-> FALSE, over |-> 0]}
                       ELSE live
            /\ timers' = timers
            /\ last' = Call("register", kind, name, 0, {})
       ELSE /\ live' = (IF timers[kind][name] # 0
                        THEN CancelOld(live, timers[kind][name]) ELSE live)
                       \cup {[id |-> nextId, kind |-> kind, name |-> name,
                               reg |-> TRUE, over |-> timers[kind][name]]}
            /\ timers' = [timers EXCEPT ![kind][name] = nextId]
            /\ last' = Call("register", kind, name, nextId, {timers[kind][name]} \ {0})
    /\ UNCHANGED <<isShuttingDown, sleeps>>

RegisterWhileDraining(kind, name) ==
    /\ ntimerops < MaxTimerOps
    /\ ntimerops' = ntimerops + 1
    /\ nextId' = nextId + 1
    /\ live' = CancelOld(live, timers[kind][name])
                   \cup {[id |-> nextId, kind |-> kind, name |-> name,
                           reg |-> TRUE, over |-> timers[kind][name]]}
    /\ timers' = [timers EXCEPT ![kind][name] = nextId]
    /\ last' = Call("register", kind, name, nextId, {timers[kind][name]} \ {0})
    /\ UNCHANGED <<isShuttingDown, storeVars, taskVars, sleeps, mutexVars, appVars>>

Register(kind, name) ==
    /\ Schedule(kind, name)
    /\ UNCHANGED <<storeVars, taskVars, mutexVars, appVars>>

setTimeout(name) == Register("timeout", name)
setInterval(name) == Register("interval", name)
registerCron(name) == Register("cron", name)

\* clearTimeout / clearInterval / stopCron(name), lines 95-122: nothing happens
\* when the Map of that kind does not have the name
CancelWholeKind(kind, name) ==
    /\ live' = {e \in live : ~(e.reg /\ e.kind = kind)}
    /\ timers' = [timers EXCEPT ![kind] = [n \in Names |-> 0]]
    /\ last' = Call("cancel", kind, name, 0, {timers[kind][n] : n \in Names} \ {0})
    /\ UNCHANGED <<nextId, isShuttingDown, ntimerops, storeVars, taskVars, sleeps, mutexVars, appVars>>

Cancel(kind, name) ==
    /\ IF timers[kind][name] # 0
       THEN /\ live' = CancelOld(live, timers[kind][name])
            /\ timers' = [timers EXCEPT ![kind][name] = 0]
       ELSE UNCHANGED <<live, timers>>
    /\ last' = Call("cancel", kind, name, 0, {timers[kind][name]} \ {0})
    /\ UNCHANGED <<nextId, isShuttingDown, ntimerops, storeVars, taskVars, sleeps, mutexVars, appVars>>

clearTimeout(name) == Cancel("timeout", name)
clearInterval(name) == Cancel("interval", name)
stopCron(name) == Cancel("cron", name)

\* the promises of sleep whose timers are among ids are resolved: true
\* ("completed") when the timer fires, false ("cancelled") when clearAll
\* cancels it
Resolve(sl, ids, res) ==
    {IF p.id \in ids /\ p.res = "pending" THEN [p EXCEPT !.res = res] ELSE p : p \in sl}

\* clearAll(), lines 127-158
ClearAll ==
    /\ isShuttingDown' = TRUE
    /\ live' = {e \in live : \A k \in Kinds, n \in Names : timers[k][n] # e.id}
    /\ timers' = [k \in Kinds |-> [n \in Names |-> 0]]
    /\ last' = Call("clearAll", "none", "none", 0, Tracked(timers))
    /\ sleeps' = Resolve(sleeps, Tracked(timers), "cancelled")
    /\ UNCHANGED <<nextId, ntimerops>>

clearAllKeepsCron ==
    /\ isShuttingDown' = TRUE
    /\ live' = {e \in live : e.kind = "cron" \/ e.id \notin Tracked(timers)}
    /\ timers' = [k \in Kinds |-> IF k = "cron" THEN timers[k] ELSE [n \in Names |-> 0]]
    /\ last' = Call("clearAll", "none", "none", 0,
                    {timers[k][n] : k \in Kinds \ {"cron"}, n \in Names} \ {0})
    /\ sleeps' = Resolve(sleeps, Tracked(timers), "cancelled")
    /\ UNCHANGED <<nextId, ntimerops, storeVars, taskVars, mutexVars, appVars>>

clearAll ==
    /\ ClearAll
    /\ UNCHANGED <<storeVars, taskVars, mutexVars, appVars>>

\* a periodic timer or a cron job runs its callback and stays scheduled
\* (setInterval(callback, delay), line 36; cron.schedule(expr, callback))
PeriodicFires ==
    \E e \in live :
        /\ e.kind \in {"interval", "cron"}
        /\ last' = Call("fire", e.kind, e.name, e.id, {})
        /\ UNCHANGED <<timers, live, nextId, isShuttingDown, ntimerops,
                       sleeps, storeVars, taskVars, mutexVars, appVars>>

(***************************************************************************)
(* TimerManager.sleep(name, ms): a delay registered as a one-shot entry.   *)
(* Its promise resolves to true when the timer fires and to false when     *)
(* clearAll cancels it ("cancelled"); while the registry is shutting down  *)
(* nothing is scheduled and the promise resolves to false ("refused").     *)
(***************************************************************************)
Sleep(name) ==
    /\ nextId' = nextId + 1
    /\ last' = Call("sleep", "timeout", name, nextId, {timers["timeout"][name]} \ {0})
    /\ IF isShuttingDown
       THEN /\ sleeps' = sleeps \cup {[id |-> nextId, name |-> name, res |-> "refused"]}
            /\ UNCHANGED <<timers, live>>
       ELSE /\ sleeps' = sleeps \cup {[id |-> nextId, name |-> name, res |-> "pending"]}
            /\ live' = CancelOld(live, timers["timeout"][name])
                           \cup {[id |-> nextId, kind |-> "timeout", name |-> name,
                                   reg |-> TRUE, over |-> timers["timeout"][name]]}
            /\ timers' = [timers EXCEPT !["timeout"][name] = nextId]
    /\ UNCHANGED <<isShuttingDown, ntimerops>>

\* the promise of the sleep with handle id has been resolved
Resolved(id) == \E p \in sleeps : p.id = id /\ p.res # "pending"
Completed(id) == \E p \in sleeps : p.id = id /\ p.res = "completed"
CancelledByClearAll(id) == \E p \in sleeps : p.id = id /\ p.res = "cancelled"

(***************************************************************************)
(* fetchWithRetry(url, maxRetries), src/redditRssFeed.js lines 44-59.      *)
(* The frame: pc is the await it is suspended at ("parseURL", "sleep"),    *)
(* attempt the loop variable, out / val / err how it settled.  A feed is   *)
(* identified by the number of the parser.parseURL call that returned it   *)
(* (val) and lists the posts 1..feed,                                      *)
(* an error by the number of the call that threw it.  calls (the number   *)
(* of parseURL calls made), results (their outcomes), waits (the delays    *)
(* passed to sleep) and cancelled (clearAll cancelled its sleep) record    *)
(* the run.                                                                *)
(***************************************************************************)
NoError == [kind |-> "none", call |-> 0]
\* the error parser.parseURL threw in its call-th call
ErrorOf(call) == [kind |-> "fetch", call |-> call]
\* new Error('RSS fetch cancelled due to shutdown'), line 55
Cancelled == [kind |-> "cancelled", call |-> 0]

IdleFetch ==
    [pc |-> "idle", maxRetries |-> 0, attempt |-> 0, results |-> <<>>, waits |-> <<>>,
     sleepId |-> 0, out |-> "none", val |-> 0, feed |-> 0, err |-> NoError,
     cancelled |-> FALSE, calls |-> 0]

RECURSIVE Pow2(_)
Pow2(n) == IF n = 0 THEN 1 ELSE 2 * Pow2(n - 1)
Min(a, b) == IF a <= b THEN a ELSE b

\* line 50
DelayUncapped(attempt) == 1000 * Pow2(attempt)
Delay(attempt) == Min(1000 * Pow2(attempt), 30000)

\* line 45, the loop condition
LoopCondition(attempt, maxRetries) == attempt <= maxRetries

\* line 49
IsLastAttemptOffByOne(attempt, maxRetries) == attempt > maxRetries
IsLastAttempt(attempt, maxRetries) == attempt = maxRetries

\* line 54
AbandonNever(completed) == FALSE
Abandon(completed) == ~completed

\* the loop is entered (or re-entered) with the given attempt: parseURL is
\* called when the condition holds, the function returns undefined otherwise
Iterate(fr, attempt) ==
    IF LoopCondition(attempt, fr.maxRetries)
    THEN [fr EXCEPT !.pc = "parseURL", !.attempt = attempt, !.calls = @ + 1]
    ELSE [fr EXCEPT !.pc = "done", !.attempt = attempt, !.out = "ret", !.val = 0]

fetchWithRetry(maxRetries) ==
    /\ fetch.pc = "idle"
    /\ fetch' = Iterate([IdleFetch EXCEPT !.maxRetries = maxRetries], 1)
    /\ UNCHANGED <<storeVars, taskVars, mutexVars, timerVars, dedupVars, pollVars, rateVars, botVars>>

\* parser.parseURL settles (line 47); on a failure that is not the last
\* attempt's the delay is computed and sleep is called (lines 49-53)
ParseURLSettles(outcome) ==
    /\ fetch.pc = "parseURL"
    /\ LET fr == [fetch EXCEPT !.results = Append(@, outcome)]
           call == Len(fr.results)
       IN  IF outcome = "ok"
           THEN /\ fetch' = [fr EXCEPT !.pc = "done", !.out = "ret", !.val = call,
                                       !.feed = published]
                /\ UNCHANGED timerVars
           ELSE IF IsLastAttempt(fr.attempt, fr.maxRetries)
           THEN /\ fetch' = [fr EXCEPT !.pc = "done", !.out = "throw", !.err = ErrorOf(call)]
                /\ UNCHANGED timerVars
           ELSE /\ fetch' = [fr EXCEPT !.pc = "sleep", !.sleepId = nextId,
                                       !.waits = Append(@, Delay(fr.attempt))]
                /\ Sleep(RetryNames[fr.attempt])
    /\ UNCHANGED <<storeVars, taskVars, mutexVars, dedupVars, pollVars, rateVars, botVars>>

\* the sleep's promise has been resolved and fetchWithRetry runs on from
\* line 54
SleepReturns ==
    /\ fetch.pc = "sleep"
    /\ Resolved(fetch.sleepId)
    /\ sleeps' = {p \in sleeps : p.id # fetch.sleepId}
    /\ LET fr == [fetch EXCEPT !.cancelled = CancelledByClearAll(fetch.sleepId)]
       IN  fetch' = IF Abandon(Completed(fetch.sleepId))
                    THEN [fr EXCEPT !.pc = "done", !.out = "throw", !.err = Cancelled]
                    ELSE Iterate(fr, fr.attempt + 1)
    /\ UNCHANGED <<timers, live, nextId, isShuttingDown, ntimerops, last,
                   storeVars, taskVars, mutexVars, dedupVars, pollVars, rateVars, botVars>>

(***************************************************************************)
(* The dedup record postedItems.json, shared by src/updateMonitor.js       *)
(* (updatePosts) and src/redditRssFeed.js (redditPosts).  posted is the    *)
(* file and its backup postedItems.json.bak: each exists or not, holds a   *)
(* text that does not parse (corrupt) or the document data.  marks records *)
(* the run: u and r are the keys                                           *)
(* pushed on updatePosts and inserted into postedItems, in order, saved is *)
(* r as it was at the latest savePostedItems, n counts the marks and re    *)
(* those of a key marked before.                                           *)
(***************************************************************************)
MAX_STORED_UPDATES == 10
MAX_STORED_ITEMS == 10

DefaultPosted == [redditPosts |-> <<>>, updatePosts |-> <<>>]
NoBackup == [exists |-> FALSE, corrupt |-> FALSE, data |-> DefaultPosted]
NoPostedFile == [exists |-> FALSE, corrupt |-> FALSE, data |-> DefaultPosted, bak |-> NoBackup]

\* the file p without its backup, and a file that holds the document data
Main(p) == [exists |-> p.exists, corrupt |-> p.corrupt, data |-> p.data]
Holding(data, bak) == [exists |-> TRUE, corrupt |-> FALSE, data |-> data, bak |-> bak]
Readable(f) == f.exists /\ ~f.corrupt

\* writeJsonAtomicSync(filePath, data), src/utils/atomicJson.js lines 56-81:
\* the existing file is copied to the backup, the new text is renamed in
writeJsonAtomicSync(p, data) == Holding(data, IF p.exists THEN Main(p) ELSE p.bak)

\* readJsonWithRecoverySync(filePath, defaultValue), lines 139-175: the
\* value it returns, and the files it leaves when it restored the backup
readJsonWithRecoverySync(p) ==
    IF Readable(Main(p)) THEN p.data
    ELSE IF Readable(p.bak) THEN p.bak.data ELSE DefaultPosted
AfterRecovery(p) ==
    IF ~Readable(Main(p)) /\ Readable(p.bak) THEN writeJsonAtomicSync(p, p.bak.data) ELSE p
NoMarks == [u |-> <<>>, r |-> <<>>, saved |-> <<>>, n |-> 0, re |-> 0]

\* loadPostedItemsFile() of src/redditRssFeed.js, lines 67-69
loadPostedItemsFile == readJsonWithRecoverySync(posted)

\* loadPostedItemsFile() of src/updateMonitor.js, lines 215-224: the parsed
\* file, the default when there is none or when it does not parse
loadUpdatesFile == IF Readable(Main(posted)) THEN posted.data ELSE DefaultPosted

\* arr.slice(-n)
SliceFront(arr, n) == SubSeq(arr, 1, Min(n, Len(arr)))
Slice(arr, n) ==
    LET start == IF Len(arr) - n < 0 THEN 0 ELSE Len(arr) - n
    IN  SubSeq(arr, start + 1, Len(arr))

\* Set.has, Set.add: a key that is in the Set keeps its place
Has(set, key) == \E i \in 1..Len(set) : set[i] = key
SetAdd(set, key) == IF Has(set, key) THEN set ELSE Append(set, key)

\* the keys a mark is tried with: one never marked on the list before and,
\* for at most MaxRemarks marks, the oldest and the newest key the list holds
NewKey(h) == IF h = <<>> THEN 1 ELSE 1 + CHOOSE k \in {h[i] : i \in 1..Len(h)} :
                                         \A j \in 1..Len(h) : h[j] <= k
MarkKeys(h, held) ==
    {NewKey(h)} \cup (IF marks.re < MaxRemarks /\ held # <<>>
                      THEN {held[1], held[Len(held)]} ELSE {})
Counted(key, h) ==
    [marks EXCEPT !.n = @ + 1, !.re = IF key = NewKey(h) THEN @ ELSE @ + 1]

\* markUpdatePosted(releaseKey), src/updateMonitor.js lines 248-254
markUpdatePosted(releaseKey) ==
    /\ marks.n < MaxMarks
    /\ LET data == loadUpdatesFile
           updates == Append(data.updatePosts, releaseKey)
       IN  posted' = Holding([data EXCEPT !.updatePosts = Slice(updates, MAX_STORED_UPDATES)],
                             posted.bak)
    /\ marks' = [Counted(releaseKey, marks.u) EXCEPT !.u = Append(@, releaseKey)]
    /\ UNCHANGED <<postedItems, fetch, pollVars, rateVars, botVars, storeVars, taskVars, mutexVars, timerVars>>

\* markUpdatePosted(releaseKey) whose fs.writeFileSync (line 231) opened and
\* truncated the file and then failed: the error is caught and logged
\* (lines 232-234), the file is left with a text that does not parse
markUpdatePostedFails(releaseKey) ==
    /\ marks.n < MaxFailMarks
    /\ posted' = [posted EXCEPT !.exists = TRUE, !.corrupt = TRUE, !.data = DefaultPosted]
    /\ marks' = [marks EXCEPT !.n = @ + 1]
    /\ UNCHANGED <<postedItems, fetch, pollVars, rateVars, botVars, storeVars, taskVars, mutexVars, timerVars>>

\* postedItems.add(item.link), src/redditRssFeed.js lines 136 and 232
Add(link) ==
    /\ marks.n < MaxMarks
    /\ postedItems' = SetAdd(postedItems, link)
    /\ marks' = [Counted(link, marks.r) EXCEPT
                    !.r = IF Has(postedItems, link) THEN @ ELSE Append(@, link)]
    /\ UNCHANGED <<posted, fetch, pollVars, rateVars, botVars, storeVars, taskVars, mutexVars, timerVars>>

\* savePostedItems(), src/redditRssFeed.js lines 99-109
Saved(items) ==
    LET data == loadPostedItemsFile
        itemsArray == Slice(items, MAX_STORED_ITEMS)
    IN  writeJsonAtomicSync(AfterRecovery(posted), [data EXCEPT !.redditPosts = itemsArray])

savePostedItems ==
    /\ posted' = Saved(postedItems)
    /\ postedItems' = Slice(postedItems, MAX_STORED_ITEMS)
    /\ marks' = [marks EXCEPT !.saved = marks.r]
    /\ UNCHANGED <<fetch, pollVars, rateVars, botVars, storeVars, taskVars, mutexVars, timerVars>>

(***************************************************************************)
(* The Reddit feed poller, src/redditRssFeed.js.  The feed lists the posts *)
(* 1..published, newest first.  poll is the frame of initRedditFeed and of *)
(* the checkForNewPosts it or the 'reddit-rss-check' timer started: pc is  *)
(* the await it is suspended at, stage tells whose fetchWithRetry is       *)
(* awaited, newItems and i are checkForNewPosts' locals (i counted from 1), *)
(* cut records that a delay of the batch did not run to its end.           *)
(***************************************************************************)
DefaultMaxRetries == 3

DownPoll == [pc |-> "down", stage |-> "none", newItems |-> <<>>, i |-> 0, sleepId |-> 0,
             cut |-> FALSE]

\* feed.items
FeedItems(n) == [i \in 1..n |-> n - i + 1]

RECURSIVE Filter(_, _)
\* feed.items.filter(item => !postedItems.has(item.link)), line 222
Filter(items, set) ==
    IF items = <<>> THEN <<>>
    ELSE (IF Has(set, Head(items)) THEN <<>> ELSE <<Head(items)>>) \o Filter(Tail(items), set)

\* .reverse(), line 223
Reverse(items) == [i \in 1..Len(items) |-> items[Len(items) - i + 1]]

RECURSIVE AddAll(_, _)
\* feed.items.forEach(item => postedItems.add(item.link)), lines 135-137
AddAll(set, items) ==
    IF items = <<>> THEN set ELSE AddAll(SetAdd(set, Head(items)), Tail(items))

\* scheduleNextCheck(), lines 149-155: timerManager.setTimeout('reddit-rss-check', ...)
ScheduleNextCheck ==
    /\ ntimerops < MaxChecks
    /\ ntimerops' = ntimerops + 1
    /\ nextId' = nextId + 1
    /\ IF isShuttingDown
       THEN /\ UNCHANGED <<timers, live>>
            /\ last' = Call("register", "timeout", CheckName, 0, {})
       ELSE /\ live' = CancelOld(live, timers["timeout"][CheckName])
                           \cup {[id |-> nextId, kind |-> "timeout", name |-> CheckName,
                                   reg |-> TRUE, over |-> timers["timeout"][CheckName]]}
            /\ timers' = [timers EXCEPT !["timeout"][CheckName] = nextId]
            /\ last' = Call("register", "timeout", CheckName, nextId,
                            {timers["timeout"][CheckName]} \ {0})
    /\ UNCHANGED <<isShuttingDown, sleeps>>

Waiting == [DownPoll EXCEPT !.pc = "waiting"]
Fetching(stage) == [DownPoll EXCEPT !.pc = "fetching", !.stage = stage]
CallFetch == Iterate([IdleFetch EXCEPT !.maxRetries = DefaultMaxRetries], 1)

\* initRedditFeed(client, channelId), lines 116-131: the process starts, the
\* posted items are loaded, the channel is found and the feed is fetched
initRedditFeedSchedulesFirst ==
    /\ poll.pc = "down"
    /\ postedItems' = loadPostedItemsFile.redditPosts
    /\ fetch' = CallFetch
    /\ poll' = Fetching("init")
    /\ ScheduleNextCheck
    /\ posted' = AfterRecovery(posted)
    /\ UNCHANGED <<marks, published, emitted, restarts, rateVars, botVars,
                   storeVars, taskVars, mutexVars>>

initRedditFeed ==
    /\ poll.pc = "down"
    /\ postedItems' = loadPostedItemsFile.redditPosts
    /\ fetch' = CallFetch
    /\ poll' = Fetching("init")
    /\ posted' = AfterRecovery(posted)
    /\ UNCHANGED <<marks, published, emitted, restarts, rateVars, botVars,
                   storeVars, taskVars, mutexVars, timerVars>>

\* checkForNewPosts has the feed: the posts not yet in postedItems, oldest
\* first; the first one is marked and its postItem started (lines 221-234)
CheckFeed(feed) ==
    LET newItems == Reverse(Filter(feed, postedItems))
    IN  IF newItems = <<>>
        THEN /\ poll' = Waiting
             /\ ScheduleNextCheck
             /\ UNCHANGED <<posted, postedItems>>
        ELSE /\ poll' = [DownPoll EXCEPT !.pc = "posting", !.stage = "check",
                                         !.newItems = newItems, !.i = 1]
             /\ postedItems' = SetAdd(postedItems, newItems[1])
             /\ UNCHANGED <<posted, timerVars>>

\* the awaited fetchWithRetry has settled: in initRedditFeed (lines 131-146,
\* 156) or in checkForNewPosts (lines 218-234, 246-248)
FetchReturns ==
    /\ poll.pc = "fetching"
    /\ fetch.pc = "done"
    /\ LET feed == FeedItems(fetch.feed)
       IN  IF fetch.out = "throw"
           THEN /\ fetch' = IdleFetch
                /\ poll' = Waiting
                /\ ScheduleNextCheck
                /\ UNCHANGED <<posted, postedItems>>
           ELSE IF poll.stage = "init"
           THEN IF Len(postedItems) = 0 /\ Len(feed) > 0
                THEN /\ fetch' = IdleFetch
                     /\ posted' = Saved(AddAll(postedItems, feed))
                     /\ postedItems' = Slice(AddAll(postedItems, feed), MAX_STORED_ITEMS)
                     /\ poll' = Waiting
                     /\ ScheduleNextCheck
                ELSE /\ fetch' = CallFetch
                     /\ poll' = Fetching("check")
                     /\ UNCHANGED <<posted, postedItems, timerVars>>
           ELSE /\ fetch' = IdleFetch
                /\ CheckFeed(feed)
    /\ UNCHANGED <<marks, published, emitted, restarts, rateVars, botVars,
                   storeVars, taskVars, mutexVars>>

\* postItem settles (line 234): after a post that is not the last of the
\* batch the poller sleeps a second (line 238), after the last one it saves
\* the posted items (line 244); a failure is caught at line 246
PostSettles(outcome) ==
    /\ poll.pc = "posting"
    /\ IF outcome = "ok"
       THEN /\ emitted' = Append(emitted, [item |-> poll.newItems[poll.i], run |-> restarts])
            /\ IF poll.i < Len(poll.newItems)
               THEN /\ poll' = [poll EXCEPT !.pc = "delay", !.sleepId = nextId]
                    /\ Sleep(PostDelayNames[poll.i])
                    /\ UNCHANGED <<posted, postedItems>>
               ELSE /\ posted' = Saved(postedItems)
                    /\ postedItems' = Slice(postedItems, MAX_STORED_ITEMS)
                    /\ poll' = Waiting
                    /\ ScheduleNextCheck
       ELSE /\ poll' = Waiting
            /\ ScheduleNextCheck
            /\ UNCHANGED <<posted, postedItems, emitted>>
    /\ UNCHANGED <<marks, published, restarts, fetch, rateVars, botVars,
                   storeVars, taskVars, mutexVars>>

\* the sleep between two posts is over (its result is not looked at): the
\* next post is marked and its postItem started (lines 229-234)
DelayReturns ==
    /\ poll.pc = "delay"
    /\ Resolved(poll.sleepId)
    /\ sleeps' = {p \in sleeps : p.id # poll.sleepId}
    /\ poll' = [poll EXCEPT !.pc = "posting", !.i = @ + 1, !.sleepId = 0,
                            !.cut = @ \/ ~Completed(poll.sleepId)]
    /\ postedItems' = SetAdd(postedItems, poll.newItems[poll.i + 1])
    /\ UNCHANGED <<posted, marks, published, emitted, restarts, fetch, rateVars, botVars,
                   timers, live, nextId, isShuttingDown, ntimerops, last,
                   storeVars, taskVars, mutexVars>>

\* a post appears on the subreddit
Publish ==
    /\ published < MaxItems
    /\ published' = published + 1
    /\ UNCHANGED <<poll, emitted, restarts, fetch, dedupVars, rateVars, botVars,
                   storeVars, taskVars, mutexVars, timerVars>>

\* the process is killed: its memory and its timers are gone, the file stays
Crash ==
    /\ poll.pc # "down"
    /\ restarts < MaxRestarts
    /\ restarts' = restarts + 1
    /\ poll' = DownPoll
    /\ fetch' = IdleFetch
    /\ postedItems' = <<>>
    /\ timers' = [k \in Kinds |-> [n \in Names |-> 0]]
    /\ live' = {}
    /\ sleeps' = {}
    /\ isShuttingDown' = FALSE
    /\ last' = NoCall
    /\ UNCHANGED <<posted, marks, published, emitted, nextId, ntimerops, rateVars, botVars,
                   storeVars, taskVars, mutexVars>>

\* the frame of a reminder callback that is not running
NoCallback == [pc |-> "idle", sent |-> "", data |-> <<>>, before |-> NoFile]
NoCallbacks == [i \in Items |-> NoCallback]

\* the callback a timer was registered with: the 'reddit-rss-check' timer
\* runs checkForNewPosts, which calls fetchWithRetry (lines 151-152, 218); a
\* reminder timer of /remindme runs to the await of channels.fetch
\* (remindme.js lines 128-130)
Callback(name) ==
    IF name = CheckName
    THEN /\ fetch' = CallFetch
         /\ poll' = Fetching("check")
         /\ UNCHANGED <<dedupVars, published, emitted, restarts, rateVars, botVars>>
    ELSE IF \E i \in Items : name = ReminderTimer(i)
    THEN /\ cb' = [i \in Items |-> IF name = ReminderTimer(i)
                                   THEN [NoCallback EXCEPT !.pc = "send"] ELSE cb[i]]
         /\ UNCHANGED <<fetch, dedupVars, pollVars, rateVars, proc, cmd, minutes>>
    ELSE UNCHANGED appVars

\* a one-shot timer fires: the wrapper deletes the name, then runs the callback
\* (src/unnamed/part_001 lines 60-63)
TimeoutFires ==
    \E e \in live :
        /\ e.kind = "timeout"
        /\ live' = live \ {e}
        /\ timers' = [timers EXCEPT !["timeout"][e.name] = 0]
        /\ last' = Call("fire", e.kind, e.name, e.id, {})
        /\ sleeps' = Resolve(sleeps, {e.id}, "completed")
        /\ Callback(e.name)
        /\ UNCHANGED <<nextId, isShuttingDown, ntimerops, storeVars, taskVars, mutexVars>>

(***************************************************************************)
(* RateLimiter, src/unnamed/part_000 lines 253-405.  The key              *)
(* `${userId}:${commandName}` is the pair <<userId, commandName>>.         *)
(***************************************************************************)
Users == {"u1", "u2"}
Commands == {"default", "search"}

\* this.defaults, lines 259-264
windowMs == 60000
maxRequests == 10
warnThreshold == 8
blockDurationMs == 30000

NoUserData == [present |-> FALSE, timestamps |-> <<>>, warned |-> FALSE]
NoRequests == [u \in Users, c \in Commands |-> NoUserData]
NoBlocks == [u \in Users |-> 0]

\* what check returns; remaining = -1 and retryAfter = 0 stand for an absent field
Ret(allowed, warning, retryAfter, remaining) ==
    [allowed |-> allowed, warning |-> warning, retryAfter |-> retryAfter,
     remaining |-> remaining]
NoRet == Ret(FALSE, FALSE, 0, -1)

\* a limiter that has not been called: the constructor, lines 254-274
NewLimiter == [userRequests |-> NoRequests, blocked |-> NoBlocks, ret |-> NoRet]

\* Math.ceil(ms / 1000)
CeilSeconds(ms) == (ms + 999) \div 1000

RECURSIVE After(_, _)
\* timestamps.filter(ts => ts > windowStart), line 328
After(timestamps, windowStart) ==
    IF timestamps = <<>> THEN <<>>
    ELSE (IF Head(timestamps) > windowStart THEN <<Head(timestamps)>> ELSE <<>>)
             \o After(Tail(timestamps), windowStart)

\* the key of this.blocked, lines 305, 315 and 333
BlockedKeyShared(userId) == "u1"
BlockedKey(userId) == userId

\* the early return of lines 306-313: the blocked test comes before the pruning
BlockedReturnPrunes(lim, userId, commandName, t) ==
    [userRequests |-> [lim.userRequests EXCEPT ![userId, commandName].timestamps =
                           After(@, t - windowMs)],
     blocked |-> lim.blocked,
     ret |-> Ret(FALSE, FALSE, CeilSeconds(lim.blocked[BlockedKey(userId)] - t), -1)]
BlockedReturn(lim, userId, commandName, t) ==
    [userRequests |-> lim.userRequests,
     blocked |-> lim.blocked,
     ret |-> Ret(FALSE, FALSE, CeilSeconds(lim.blocked[BlockedKey(userId)] - t), -1)]

\* lines 346-354: warn once, reset the flag below the threshold
Warned(count, warned) == IF count < warnThreshold THEN FALSE ELSE TRUE

\* check(userId, commandName) at time t on the limiter lim, lines 300-365
Check(lim, userId, commandName, t) ==
    LET unblockTime == lim.blocked[BlockedKey(userId)]
        pruned == After(lim.userRequests[userId, commandName].timestamps, t - windowMs)
        warned == lim.userRequests[userId, commandName].warned
        warning == Len(pruned) >= warnThreshold /\ ~warned
    IN  IF unblockTime # 0 /\ t < unblockTime
        THEN BlockedReturn(lim, userId, commandName, t)
        ELSE IF Len(pruned) >= maxRequests
        THEN [userRequests |-> [lim.userRequests EXCEPT ![userId, commandName] =
                  [present |-> TRUE, timestamps |-> pruned, warned |-> warned]],
              blocked |-> [lim.blocked EXCEPT ![BlockedKey(userId)] = t + blockDurationMs],
              ret |-> Ret(FALSE, FALSE, CeilSeconds(blockDurationMs), -1)]
        ELSE [userRequests |-> [lim.userRequests EXCEPT ![userId, commandName] =
                  [present |-> TRUE, timestamps |-> Append(pruned, t),
                   warned |-> Warned(Len(pruned), warned)]],
              blocked |-> [lim.blocked EXCEPT ![BlockedKey(userId)] = 0],
              ret |-> Ret(TRUE, warning, 0, maxRequests - (Len(pruned) + 1))]

\* cleanup() at time t on the limiter lim, lines 370-392
Cleanup(lim, t) ==
    [userRequests |-> [k \in DOMAIN lim.userRequests |->
         IF /\ lim.userRequests[k].present
            /\ \/ lim.userRequests[k].timestamps = <<>>
               \/ \A i \in 1..Len(lim.userRequests[k].timestamps) :
                      lim.userRequests[k].timestamps[i] < t - 10 * 60 * 1000
         THEN NoUserData ELSE lim.userRequests[k]],
     blocked |-> [u \in Users |-> IF lim.blocked[u] # 0 /\ t >= lim.blocked[u]
                                  THEN 0 ELSE lim.blocked[u]],
     ret |-> lim.ret]

\* the limiter of this process
Limiter == [userRequests |-> userRequests, blocked |-> blocked,
            ret |-> IF calls = <<>> THEN NoRet ELSE calls[Len(calls)].ret]

\* solo.actor[u] is a limiter that receives only the calls of actor u, and
\* solo.key[u, c] one that receives only the calls of the key; both run the
\* same cleanup at the same moments
NoSolo == [actor |-> [u \in Users |-> NewLimiter],
           key |-> [u \in Users, c \in Commands |-> NewLimiter]]

InitRate ==
    /\ now = 0
    /\ userRequests = NoRequests
    /\ blocked = NoBlocks
    /\ calls = <<>>
    /\ nticks = 0
    /\ solo = NoSolo

Returned(userId, commandName, ret) ==
    Append(calls, [user |-> userId, command |-> commandName, at |-> now, ret |-> ret])

\* rateLimiter.check(userId, commandName) is called
check(userId, commandName) ==
    /\ Len(calls) < MaxCalls
    /\ LET after == Check(Limiter, userId, commandName, now)
       IN  /\ userRequests' = after.userRequests
           /\ blocked' = after.blocked
           /\ calls' = Returned(userId, commandName, after.ret)
    /\ solo' = [actor |-> [solo.actor EXCEPT ![userId] = Check(@, userId, commandName, now)],
                key |-> [solo.key EXCEPT ![userId, commandName] =
                             Check(@, userId, commandName, now)]]
    /\ UNCHANGED <<now, nticks, fetch, dedupVars, pollVars, botVars,
                   storeVars, taskVars, mutexVars, timerVars>>

\* the cleanup interval of line 273 fires
cleanup ==
    /\ userRequests' = Cleanup(Limiter, now).userRequests
    /\ blocked' = Cleanup(Limiter, now).blocked
    /\ solo' = [actor |-> [u \in Users |-> Cleanup(solo.actor[u], now)],
                key |-> [k \in DOMAIN solo.key |-> Cleanup(solo.key[k], now)]]
    /\ UNCHANGED <<now, calls, nticks, fetch, dedupVars, pollVars, botVars,
                   storeVars, taskVars, mutexVars, timerVars>>

\* the timer of line 273: setInterval of the platform, called by the
\* constructor when the module is loaded; it has no name in the registry
CleanupTimer == "rate-limiter-cleanup"
CleanupInterval == [id |-> 1, kind |-> "interval", name |-> CleanupTimer,
                    reg |-> FALSE, over |-> 0]

\* that timer fires and runs cleanup
CleanupFires ==
    \E e \in live :
        /\ e.kind = "interval" /\ e.name = CleanupTimer
        /\ last' = Call("fire", e.kind, e.name, e.id, {})
        /\ userRequests' = Cleanup(Limiter, now).userRequests
        /\ blocked' = Cleanup(Limiter, now).blocked
        /\ solo' = [actor |-> [u \in Users |-> Cleanup(solo.actor[u], now)],
                    key |-> [k \in DOMAIN solo.key |-> Cleanup(solo.key[k], now)]]
        /\ UNCHANGED <<now, calls, nticks, fetch, dedupVars, pollVars, botVars,
                       timers, live, nextId, isShuttingDown, ntimerops, sleeps,
                       storeVars, taskVars, mutexVars>>

\* time passes
TickSizes == {29500, 30000, 600000}
Tick(ms) ==
    /\ nticks < MaxTicks
    /\ nticks' = nticks + 1
    /\ now' = now + ms
    /\ UNCHANGED <<userRequests, blocked, calls, solo, fetch, dedupVars, pollVars, botVars,
                   storeVars, taskVars, mutexVars, timerVars>>

RECURSIVE Burst(_, _, _)
\* n calls of check(userId, commandName) on a new limiter at time 0
Burst(userId, commandName, n) ==
    IF n = 0 THEN [lim |-> NewLimiter, calls |-> <<>>]
    ELSE LET b == Burst(userId, commandName, n - 1)
             after == Check(b.lim, userId, commandName, 0)
         IN  [lim |-> after,
              calls |-> Append(b.calls, [user |-> userId, command |-> commandName,
                                         at |-> 0, ret |-> after.ret])]

(***************************************************************************)
(* Shutdown and the global error handlers, src/unnamed/part_000 lines 1-72 *)
(* and 199-224.  proc.isShuttingDown is the flag of shutdown.js (the       *)
(* registry has its own), proc.pc the position of handleShutdown, race the *)
(* settlement of Promise.race it awaits, exit the code process.exit was    *)
(* called with (-1: the process runs), by the handler that called it,      *)
(* clearAlls the number of calls of timerManager.clearAll, force whether   *)
(* the exit timer of the uncaughtException handler is pending.  Signals    *)
(* and exceptions may arrive while handleShutdown is suspended.            *)
(***************************************************************************)
Running == [isShuttingDown |-> FALSE, pc |-> "idle", race |-> "none", exit |-> -1,
            by |-> "none", clearAlls |-> 0, force |-> FALSE, events |-> 0]

Alive == proc.exit = -1

\* if (isShuttingDown) return, lines 37-40 and 210-213
InProgressIgnored(p) == FALSE
InProgress(p) == p.isShuttingDown

\* handleShutdown(signal) up to its await, lines 36-65; stays says whether
\* client.destroy() returned
handleShutdown(stays) ==
    /\ Alive
    /\ proc.events < MaxSignals
    /\ IF InProgress(proc)
       THEN /\ proc' = [proc EXCEPT !.events = @ + 1]
            /\ UNCHANGED timerVars
       ELSE /\ proc' = [proc EXCEPT !.events = @ + 1, !.isShuttingDown = TRUE,
                                    !.pc = "race", !.clearAlls = @ + 1,
                                    !.race = IF stays THEN "resolved" ELSE "rejected"]
            /\ ClearAll
    /\ UNCHANGED <<storeVars, taskVars, mutexVars, fetch, dedupVars, pollVars, rateVars, cmd, cb, minutes>>

\* the await of line 64 returns or throws: process.exit(0) or process.exit(1)
ShutdownExits ==
    /\ Alive
    /\ proc.pc = "race"
    /\ proc' = [proc EXCEPT !.pc = "idle", !.by = "handleShutdown",
                            !.exit = IF proc.race = "resolved" THEN 0 ELSE 1]
    /\ UNCHANGED <<storeVars, taskVars, mutexVars, timerVars, fetch, dedupVars,
                   pollVars, rateVars, cmd, cb, minutes>>

\* process.on('uncaughtException', ...), lines 207-217
uncaughtException ==
    /\ Alive
    /\ proc.events < MaxSignals
    /\ proc' = [proc EXCEPT !.events = @ + 1,
                            !.force = IF InProgress(proc) THEN @ ELSE TRUE]
    /\ UNCHANGED <<storeVars, taskVars, mutexVars, timerVars, fetch, dedupVars,
                   pollVars, rateVars, cmd, cb, minutes>>

\* setTimeout(() => process.exit(1), 1000), line 216
ForceExit ==
    /\ Alive
    /\ proc.force
    /\ proc' = [proc EXCEPT !.exit = 1, !.by = "uncaughtException", !.force = FALSE]
    /\ UNCHANGED <<storeVars, taskVars, mutexVars, timerVars, fetch, dedupVars,
                   pollVars, rateVars, cmd, cb, minutes>>

(***************************************************************************)
(* The /remindme command, src/commands/remindme.js, and the validators of  *)
(* src/utils/jitter.js lines 205-255.  A text is a sequence of characters: *)
(* "a" a visible one, " " a space, "\n" a control character, "zw" a        *)
(* zero-width one, "<" and ">".  Null is the absent option.                *)
(***************************************************************************)
Chars == {"a", " ", "\n", "zw", "<", ">"}
Null == <<"null">>
Texts == {Null} \cup UNION {[1..n -> Chars] : n \in 0..MaxText}
\* the amounts: around the limits 1 and 52 (weeks), and one that is no integer
Amounts == {[int |-> TRUE, n |-> n] : n \in {0, 1, 52, 53}} \cup {[int |-> FALSE, n |-> 1]}
Units == {"minutes", "weeks", "years"}

RECURSIVE StripHtml(_)
\* result.replace(/<[^>]*>/g, ''), jitter.js line 67
StripHtml(s) ==
    IF s = <<>> THEN <<>>
    ELSE IF s[1] = "<" /\ \E j \in 2..Len(s) : s[j] = ">"
    THEN LET j == CHOOSE k \in 2..Len(s) :
                      s[k] = ">" /\ \A i \in 2..(k - 1) : s[i] # ">"
         IN  StripHtml(SubSeq(s, j + 1, Len(s)))
    ELSE <<s[1]>> \o StripHtml(Tail(s))

\* result.replace(/[\x00-\x1F\x7F]/g, ' '), line 74
ControlToSpace(s) == [i \in 1..Len(s) |-> IF s[i] = "\n" THEN " " ELSE s[i]]

\* result.replace(/[\u200B-\u200D\uFEFF\u2060\u180E]/g, ''), line 78
RemoveZeroWidth(s) == SelectSeq(s, LAMBDA ch : ch # "zw")

RECURSIVE Spaces(_)
\* the number of spaces s begins with
Spaces(s) == IF s = <<>> \/ s[1] # " " THEN 0 ELSE 1 + Spaces(Tail(s))

RECURSIVE CollapseSpaces(_)
\* result.replace(/[ \t]{3,}/g, '  '), line 86
CollapseSpaces(s) ==
    IF s = <<>> THEN <<>>
    ELSE IF Spaces(s) >= 3
    THEN <<" ", " ">> \o CollapseSpaces(SubSeq(s, Spaces(s) + 1, Len(s)))
    ELSE IF Spaces(s) > 0
    THEN SubSeq(s, 1, Spaces(s)) \o CollapseSpaces(SubSeq(s, Spaces(s) + 1, Len(s)))
    ELSE <<s[1]>> \o CollapseSpaces(Tail(s))

\* result.substring(0, maxLength), lines 92-94
Truncate(s, maxLength) == IF Len(s) > maxLength THEN SubSeq(s, 1, maxLength) ELSE s

RECURSIVE TrimStart(_)
TrimStart(s) == IF s = <<>> \/ s[1] # " " THEN s ELSE TrimStart(Tail(s))
RECURSIVE TrimEnd(_)
TrimEnd(s) == IF s = <<>> \/ s[Len(s)] # " " THEN s ELSE TrimEnd(SubSeq(s, 1, Len(s) - 1))
\* result.trim(), line 96
Trim(s) == TrimEnd(TrimStart(s))

\* sanitizeString(text, { maxLength: 500, allowNewlines: false, allowMarkdown: true }),
\* lines 52-97; stripHtml defaults to true
sanitizeString(text, maxLength) ==
    Trim(Truncate(CollapseSpaces(RemoveZeroWidth(ControlToSpace(StripHtml(text)))),
                  maxLength))

\* validateReminderText(text), lines 205-225
validateReminderText(text) ==
    IF text = Null \/ text = <<>>
    THEN [valid |-> FALSE, sanitized |-> <<>>, error |-> "Reminder text is required"]
    ELSE LET sanitized == sanitizeString(text, 500) IN
         IF Len(sanitized) < 1
         THEN [valid |-> FALSE, sanitized |-> <<>>, error |-> "Reminder text cannot be empty"]
         ELSE IF Len(sanitized) > 500
         THEN [valid |-> FALSE, sanitized |-> <<>>,
               error |-> "Reminder text cannot exceed 500 characters"]
         ELSE [valid |-> TRUE, sanitized |-> sanitized, error |-> ""]

\* the limits table of validateTimeAmount, lines 234-239: max (0: no such unit)
UnitMax(unit) ==
    CASE unit = "minutes" -> 1440
      [] unit = "hours" -> 168
      [] unit = "days" -> 365
      [] unit = "weeks" -> 52
      [] OTHER -> 0
\* the multipliers of that table, in minutes (the code's are in milliseconds,
\* which are all multiples of 60 * 1000 and exceed 32 bits)
UnitMultiplier(unit) ==
    CASE unit = "minutes" -> 1
      [] unit = "hours" -> 60
      [] unit = "days" -> 24 * 60
      [] unit = "weeks" -> 7 * 24 * 60
      [] OTHER -> 0

\* validateTimeAmount(amount, unit), lines 233-255; amount is [int, n], int
\* telling whether Number.isInteger(amount); the field ms is in minutes
validateTimeAmount(amount, unit) ==
    IF ~amount.int \/ amount.n < 1
    THEN [valid |-> FALSE, ms |-> 0, error |-> "Time amount must be a positive integer"]
    ELSE IF UnitMax(unit) = 0
    THEN [valid |-> FALSE, ms |-> 0, error |-> "Invalid time unit"]
    ELSE IF amount.n > UnitMax(unit)
    THEN [valid |-> FALSE, ms |-> 0, error |-> "Cannot set reminder for more than max"]
    ELSE [valid |-> TRUE, ms |-> amount.n * UnitMultiplier(unit), error |-> ""]

NoPermission == "I cannot send messages in this channel"

\* remindme.js lines 82-105: the reply execute returns with before anything is
\* saved, "" when it goes on
RejectionTextOnly(text, amount, unit, perm) ==
    IF ~validateReminderText(text).valid THEN validateReminderText(text).error
    ELSE IF ~perm THEN NoPermission
    ELSE ""
Rejection(text, amount, unit, perm) ==
    IF ~validateReminderText(text).valid THEN validateReminderText(text).error
    ELSE IF ~validateTimeAmount(amount, unit).valid THEN validateTimeAmount(amount, unit).error
    ELSE IF ~perm THEN NoPermission
    ELSE ""

NoCommand == [pc |-> "idle", text |-> Null, amount |-> [int |-> TRUE, n |-> 0],
              unit |-> "", msg |-> "", reply |-> "", data |-> <<>>, fs0 |-> NoFiles,
              tm0 |-> 0, reminderTime |-> 0, due |-> 0]

\* setTimeout(..., delay) of the platform, called by TimerManager.setTimeout
\* with the delay it was given (src/unnamed/part_001 lines 59-62): the delay
\* is a signed 32-bit number of milliseconds, and one above 2^31 - 1 ms is
\* replaced by 1 ms.  In whole minutes: 0.
PlatformDelay(delay) == IF delay > 2147483647 \div (60 * 1000) THEN 0 ELSE delay

\* execute(interaction) up to the await of deferReply, lines 70-72
execute(text, amount, unit) ==
    /\ cmd.pc = "idle"
    /\ cmd' = [NoCommand EXCEPT !.pc = "defer", !.text = text, !.amount = amount,
                                !.unit = unit, !.fs0 = fs, !.tm0 = nextId]
    /\ UNCHANGED <<storeVars, taskVars, mutexVars, timerVars, fetch, dedupVars,
                   pollVars, rateVars, proc, cb, minutes>>

\* deferReply returned: the validations and the permission check (perm), then
\* editReply with the rejection, or addReminder up to the readFile of
\* loadReminders (lines 75-120, 34-35, 11-13)
DeferReturns(perm) ==
    /\ cmd.pc = "defer"
    /\ LET msg == Rejection(cmd.text, cmd.amount, cmd.unit, perm) IN
         cmd' = IF msg # "" THEN [cmd EXCEPT !.pc = "replyError", !.msg = msg]
                ELSE [cmd EXCEPT !.pc = "load",
                                 !.reminderTime =
                                     minutes + validateTimeAmount(cmd.amount, cmd.unit).ms]
    /\ UNCHANGED <<storeVars, taskVars, mutexVars, timerVars, fetch, dedupVars,
                   pollVars, rateVars, proc, cb, minutes>>

\* loadReminders returns the array of the file, or [] on any error (lines
\* 11-22); reminders.push(reminder); saveReminders calls fs.writeFile (26-27)
LoadReturns(F) ==
    /\ cmd.pc = "load"
    /\ \E o \in F :
         LET r == ReadAndParse(fs[FilePath], o) IN
         cmd' = [cmd EXCEPT !.pc = "saveOpen",
                            !.data = Append(IF r.ok THEN r.val ELSE <<>>, "r1")]
    /\ UNCHANGED <<storeVars, taskVars, mutexVars, timerVars, fetch, dedupVars,
                   pollVars, rateVars, proc, cb, minutes>>

\* fs.writeFile(REMINDERS_FILE, ...): the file is opened and truncated; an
\* error is logged by saveReminders (lines 28-30) and execute goes on to the
\* editReply of line 120
SaveOpen(F) ==
    /\ cmd.pc = "saveOpen"
    /\ \E o \in F :
         IF o = "ok"
         THEN /\ fs' = [fs EXCEPT ![FilePath] = File(<<>>)]
              /\ cmd' = [cmd EXCEPT !.pc = "saveData"]
         ELSE /\ fs' = fs
              /\ cmd' = [cmd EXCEPT !.pc = "replyOk", !.msg = "I will remind you"]
    /\ UNCHANGED <<committed, initDoc, taskVars, mutexVars, timerVars, fetch, dedupVars,
                   pollVars, rateVars, proc, cb, minutes>>

\* fs.writeFile: the text is written, or only a part of it
SaveData(F) ==
    /\ cmd.pc = "saveData"
    /\ \E o \in F :
         IF o = "ok"
         THEN fs' = [fs EXCEPT ![FilePath] = File(JSONstringify(cmd.data))]
         ELSE \E part \in ProperPrefixes(JSONstringify(cmd.data)) :
                  fs' = [fs EXCEPT ![FilePath] = File(part)]
    /\ cmd' = [cmd EXCEPT !.pc = "replyOk", !.msg = "I will remind you"]
    /\ UNCHANGED <<committed, initDoc, taskVars, mutexVars, timerVars, fetch, dedupVars,
                   pollVars, rateVars, proc, cb, minutes>>

\* editReply returned: execute returns (lines 84-86, 93-95, 101-103), or
\* registers the timer of the reminder (lines 123-141)
ReplyReturns ==
    /\ cmd.pc \in {"replyError", "replyOk"}
    /\ cmd' = [cmd EXCEPT !.pc = "done", !.reply = cmd.msg,
                           !.due = IF cmd.pc = "replyOk"
                                   THEN minutes + PlatformDelay(
                                            validateTimeAmount(cmd.amount, cmd.unit).ms)
                                   ELSE @]
    /\ IF cmd.pc = "replyOk" THEN Schedule("timeout", ReminderName)
       ELSE UNCHANGED timerVars
    /\ UNCHANGED <<storeVars, taskVars, mutexVars, fetch, dedupVars,
                   pollVars, rateVars, proc, cb, minutes>>

\* time passes while execute is suspended at one of its awaits
Elapse ==
    /\ cmd.pc \notin {"idle", "done"}
    /\ minutes < MaxElapse
    /\ minutes' = minutes + 1
    /\ UNCHANGED <<storeVars, taskVars, mutexVars, timerVars, fetch, dedupVars,
                   pollVars, rateVars, proc, cmd, cb>>

\* time passes up to the moment the platform timer of the reminder is due
TimerDue ==
    /\ \E e \in live : e.name = ReminderName
    /\ minutes < cmd.due
    /\ minutes' = cmd.due
    /\ UNCHANGED <<storeVars, taskVars, mutexVars, timerVars, fetch, dedupVars,
                   pollVars, rateVars, proc, cmd, cb>>

\* the callback's await of channels.fetch / channel.send settles: on both
\* paths removeReminder(reminderId) is called and runs to the readFile of
\* loadReminders (lines 129-138, 41-42, 11-13)
SendSettles(item, outcome) ==
    /\ cb[item].pc = "send"
    /\ cb' = [cb EXCEPT ![item] = [@ EXCEPT !.pc = "load", !.sent = outcome]]
    /\ UNCHANGED <<storeVars, taskVars, mutexVars, timerVars, fetch, dedupVars,
                   pollVars, rateVars, proc, cmd, minutes>>

\* loadReminders returns the array of the file, or [] on any error; the
\* reminder is filtered out and saveReminders calls fs.writeFile (lines
\* 42-44, 26-27)
RemoveLoads(item) ==
    /\ cb[item].pc = "load"
    /\ LET r == ReadAndParse(fs[FilePath], "ok") IN
         cb' = [cb EXCEPT ![item] =
                  [@ EXCEPT !.pc = "saveOpen",
                            !.data = Without(IF r.ok THEN r.val ELSE <<>>, item)]]
    /\ UNCHANGED <<storeVars, taskVars, mutexVars, timerVars, fetch, dedupVars,
                   pollVars, rateVars, proc, cmd, minutes>>

\* fs.writeFile(REMINDERS_FILE, ...) of the callback: the file is opened and
\* truncated (before: what it held)
RemoveOpens(item) ==
    /\ cb[item].pc = "saveOpen"
    /\ fs' = [fs EXCEPT ![FilePath] = File(<<>>)]
    /\ cb' = [cb EXCEPT ![item] = [@ EXCEPT !.pc = "saveData", !.before = fs[FilePath]]]
    /\ UNCHANGED <<committed, initDoc, taskVars, mutexVars, timerVars, fetch, dedupVars,
                   pollVars, rateVars, proc, cmd, minutes>>

\* fs.writeFile: the text is written; removeReminder and the callback return
RemoveWrites(item) ==
    /\ cb[item].pc = "saveData"
    /\ fs' = [fs EXCEPT ![FilePath] = File(JSONstringify(cb[item].data))]
    /\ cb' = [cb EXCEPT ![item] = [@ EXCEPT !.pc = "done"]]
    /\ UNCHANGED <<committed, initDoc, taskVars, mutexVars, timerVars, fetch, dedupVars,
                   pollVars, rateVars, proc, cmd, minutes>>

(***************************************************************************)
(* SpecTimers: any sequence of calls on the timer registry.                *)
(***************************************************************************)
NextTimers ==
    \/ \E n \in CallerNames : setTimeout(n)
    \/ \E n \in CallerNames : setInterval(n)
    \/ \E n \in CallerNames : registerCron(n)
    \/ \E n \in CallerNames : clearTimeout(n)
    \/ \E n \in CallerNames : clearInterval(n)
    \/ \E n \in CallerNames : stopCron(n)
    \/ clearAll
    \/ TimeoutFires
    \/ PeriodicFires

(***************************************************************************)
(* Initial states.                                                         *)
(***************************************************************************)
InitMutex ==
    /\ locked = FALSE
    /\ queue = <<>>
    /\ arrivals = <<>>
    /\ entered = <<>>

InitTimers ==
    /\ timers = [k \in Kinds |-> [n \in Names |-> 0]]
    /\ live = {}
    /\ nextId = 1
    /\ isShuttingDown = FALSE
    /\ ntimerops = 0
    /\ last = NoCall
    /\ sleeps = {}

InitApp ==
    /\ fetch = IdleFetch
    /\ posted = NoPostedFile
    /\ postedItems = <<>>
    /\ marks = NoMarks
    /\ published = 0
    /\ poll = DownPoll
    /\ emitted = <<>>
    /\ restarts = 0
    /\ InitRate
    /\ proc = Running
    /\ cmd = NoCommand
    /\ cb = NoCallbacks
    /\ minutes = 0

InitTasks ==
    /\ task = [t \in Tasks |-> IdleTask]
    /\ prev = [t \in Tasks |-> NoPrev]
    /\ nops = 0
    /\ committed = <<>>
    /\ initDoc = IF JSONparse(fs[FilePath].data).ok THEN JSONparse(fs[FilePath].data).val
                 ELSE IF JSONparse(fs[BackupPath(FilePath)].data).ok
                 THEN JSONparse(fs[BackupPath(FilePath)].data).val
                 ELSE <<>>



\* every state the three files can be found in: missing, a complete document,
\* a truncated one
FileStates == {NoFile, File(<<"[">>)} \cup {File(JSONstringify(v)) : v \in Values}

InitTimersSpec ==
    /\ fs = NoFiles
    /\ InitTasks /\ InitMutex /\ InitTimers /\ InitApp

SpecTimers == InitTimersSpec /\ [][NextTimers]_vars

(***************************************************************************)
(* SpecFetch: one fetchWithRetry call with any maxRetries up to            *)
(* MaxRetries, any outcome of each parseURL call, and a shutdown           *)
(* (clearAll) at any moment.                                               *)
(***************************************************************************)
InitFetch ==
    /\ fs = NoFiles
    /\ InitTasks /\ InitMutex /\ InitTimers /\ InitApp

NextFetch ==
    \/ \E m \in 0..MaxRetries : fetchWithRetry(m)
    \/ \E o \in {"ok", "fail"} : ParseURLSettles(o)
    \/ SleepReturns
    \/ TimeoutFires
    \/ clearAll

SpecFetch == InitFetch /\ [][NextFetch]_vars

(***************************************************************************)
(* SpecDedup: any sequence of at most MaxMarks marks on the two lists of   *)
(* postedItems.json.  No file operation fails.                             *)
(***************************************************************************)
InitDedup ==
    /\ fs = NoFiles
    /\ InitTasks /\ InitMutex /\ InitTimers /\ InitApp

NextDedup ==
    \/ \E k \in MarkKeys(marks.u, loadUpdatesFile.updatePosts) : markUpdatePosted(k)
    \/ \E k \in MarkKeys(marks.r, postedItems) : Add(k)
    \/ savePostedItems

SpecDedup == InitDedup /\ [][NextDedup]_vars

(***************************************************************************)
(* SpecNamespaces: the two modules recording keys in postedItems.json,     *)
(* with writes of src/updateMonitor.js that fail after truncating the      *)
(* file, among the first MaxFailMarks marks.                               *)
(***************************************************************************)
NextNamespaces ==
    \/ \E k \in MarkKeys(marks.u, loadUpdatesFile.updatePosts) : markUpdatePosted(k)
    \/ \E k \in MarkKeys(marks.u, loadUpdatesFile.updatePosts) : markUpdatePostedFails(k)
    \/ \E k \in MarkKeys(marks.r, postedItems) : Add(k)
    \/ savePostedItems

SpecNamespaces == InitDedup /\ [][NextNamespaces]_vars

(***************************************************************************)
(* SpecPoller: the feed poller from a first start or from a start with     *)
(* post 1 recorded, with new posts appearing, every fetch succeeding at    *)
(* once, and the process killed and started again at any moment.           *)
(***************************************************************************)
InitPoller ==
    /\ fs = NoFiles
    /\ InitTasks /\ InitMutex /\ InitTimers
    /\ fetch = IdleFetch
    /\ postedItems = <<>>
    /\ marks = NoMarks
    /\ poll = DownPoll
    /\ emitted = <<>>
    /\ restarts = 0
    /\ InitRate
    /\ proc = Running
    /\ cmd = NoCommand
    /\ cb = NoCallbacks
    /\ minutes = 0
    /\ published \in {0, 1}
    /\ posted = IF published = 0 THEN NoPostedFile
                ELSE Holding([DefaultPosted EXCEPT !.redditPosts = <<1>>], NoBackup)

NextPoller ==
    \/ initRedditFeed
    \/ ParseURLSettles("ok")
    \/ FetchReturns
    \/ PostSettles("ok")
    \/ DelayReturns
    \/ TimeoutFires
    \/ Publish
    \/ Crash

SpecPoller == InitPoller /\ [][NextPoller]_vars

(***************************************************************************)
(* SpecFirstRun: the process starts for the first time (there is no        *)
(* postedItems.json) on a feed of up to MaxFeed posts that does not        *)
(* change; every fetch succeeds at once and every post is sent.            *)
(***************************************************************************)
InitFirstRun ==
    /\ fs = NoFiles
    /\ InitTasks /\ InitMutex /\ InitTimers
    /\ fetch = IdleFetch
    /\ postedItems = <<>>
    /\ marks = NoMarks
    /\ poll = DownPoll
    /\ emitted = <<>>
    /\ restarts = 0
    /\ InitRate
    /\ proc = Running
    /\ cmd = NoCommand
    /\ cb = NoCallbacks
    /\ minutes = 0
    /\ published \in 0..MaxFeed
    /\ posted = NoPostedFile

NextFirstRun ==
    \/ initRedditFeed
    \/ ParseURLSettles("ok")
    \/ FetchReturns
    \/ PostSettles("ok")
    \/ DelayReturns
    \/ TimeoutFires

SpecFirstRun == InitFirstRun /\ [][NextFirstRun]_vars

\* the feed poller when Discord can refuse a message: channel.send rejects
\* inside postItem (redditRssFeed.js line 209)
NextSend ==
    \/ NextPoller
    \/ PostSettles("fail")

SpecSend == InitPoller /\ [][NextSend]_vars

\* one run of the process in which the fetch can fail and be retried and
\* Discord can refuse a message
NextCycle ==
    \/ initRedditFeed
    \/ \E o \in {"ok", "fail"} : ParseURLSettles(o)
    \/ SleepReturns
    \/ FetchReturns
    \/ \E o \in {"ok", "fail"} : PostSettles(o)
    \/ DelayReturns
    \/ TimeoutFires
    \/ Publish

SpecCycle == InitPoller /\ [][NextCycle]_vars

\* the same, with a shutdown (clearAll) at any moment
NextStop ==
    \/ NextSend
    \/ clearAll

SpecStop == InitPoller /\ [][NextStop]_vars

(***************************************************************************)
(* SpecRate: one user calling one command at any moments, with the         *)
(* periodic cleanup running in between.                                    *)
(***************************************************************************)
InitRateSpec ==
    /\ fs = NoFiles
    /\ InitTasks /\ InitMutex /\ InitTimers /\ InitApp

NextRate ==
    \/ check("u1", "default")
    \/ cleanup
    \/ \E ms \in TickSizes : Tick(ms)

SpecRate == InitRateSpec /\ [][NextRate]_vars

(***************************************************************************)
(* SpecKeys: two users and two commands.  The run starts when one key has  *)
(* been checked BurstLen times in the first millisecond; then any user     *)
(* calls any command, time passes in steps of the block duration and the   *)
(* cleanup runs.                                                           *)
(***************************************************************************)
InitKeys ==
    /\ fs = NoFiles
    /\ InitTasks /\ InitMutex /\ InitTimers
    /\ fetch = IdleFetch
    /\ posted = NoPostedFile
    /\ postedItems = <<>>
    /\ marks = NoMarks
    /\ published = 0
    /\ poll = DownPoll
    /\ emitted = <<>>
    /\ restarts = 0
    /\ proc = Running
    /\ cmd = NoCommand
    /\ cb = NoCallbacks
    /\ minutes = 0
    /\ now = 0
    /\ nticks = 0
    /\ \E u \in Users, c \in Commands :
           LET b == Burst(u, c, BurstLen)
           IN  /\ userRequests = b.lim.userRequests
               /\ blocked = b.lim.blocked
               /\ calls = b.calls
               /\ solo = [actor |-> [NoSolo.actor EXCEPT ![u] = b.lim],
                          key |-> [NoSolo.key EXCEPT ![u, c] = b.lim]]

NextKeys ==
    \/ \E u \in Users, c \in Commands : check(u, c)
    \/ cleanup
    \/ Tick(blockDurationMs)

SpecKeys == InitKeys /\ [][NextKeys]_vars

(***************************************************************************)
(* SpecCleanup: the process after the modules are loaded, so with the      *)
(* limiter constructed and its cleanup timer running; one user calls one   *)
(* command, time passes in steps of the block duration, the cleanup timer  *)
(* fires and the shutdown handler calls clearAll at any moment.            *)
(***************************************************************************)
InitCleanup ==
    /\ fs = NoFiles
    /\ InitTasks /\ InitMutex /\ InitApp
    /\ timers = [k \in Kinds |-> [n \in Names |-> 0]]
    /\ live = {CleanupInterval}
    /\ nextId = 2
    /\ isShuttingDown = FALSE
    /\ ntimerops = 0
    /\ last = NoCall
    /\ sleeps = {}

NextCleanup ==
    \/ check("u1", "default")
    \/ Tick(blockDurationMs)
    \/ CleanupFires
    \/ clearAll

SpecCleanup == InitCleanup /\ [][NextCleanup]_vars

(***************************************************************************)
(* SpecShutdown: callers register timers while signals and uncaught        *)
(* exceptions arrive in any order, until the process exits.                *)
(***************************************************************************)
InitShutdown ==
    /\ fs = NoFiles
    /\ InitTasks /\ InitMutex /\ InitTimers /\ InitApp

NextShutdown ==
    \/ \E stays \in BOOLEAN : handleShutdown(stays)
    \/ ShutdownExits
    \/ uncaughtException
    \/ ForceExit
    \/ \E n \in CallerNames : Alive /\ setTimeout(n)
    \/ \E n \in CallerNames : Alive /\ setInterval(n)
    \/ Alive /\ TimeoutFires

SpecShutdown == InitShutdown /\ [][NextShutdown]_vars

(***************************************************************************)
(* SpecRemind: one /remindme command with any text, amount and unit, on a  *)
(* reminders.json that is missing, empty, holds a reminder or is corrupt.  *)
(* No file operation fails and every reply is delivered.                   *)
(***************************************************************************)
InitRemind ==
    /\ fs \in {NoFiles,
               [NoFiles EXCEPT ![FilePath] = File(JSONstringify(<<>>))],
               [NoFiles EXCEPT ![FilePath] = File(JSONstringify(<<"r6">>))],
               [NoFiles EXCEPT ![FilePath] = File(<<"[">>)]}
    /\ InitTasks /\ InitMutex /\ InitTimers /\ InitApp

NextRemind ==
    \/ \E text \in Texts, amount \in Amounts, unit \in Units :
           execute(text, amount, unit)
    \/ \E perm \in BOOLEAN : DeferReturns(perm)
    \/ LoadReturns({"ok"})
    \/ SaveOpen({"ok"})
    \/ SaveData({"ok"})
    \/ ReplyReturns

SpecRemind == InitRemind /\ [][NextRemind]_vars

(***************************************************************************)
(* SpecDelay: one /remindme command with any amount and unit, with the     *)
(* time that passes during the command and until the platform timer of the *)
(* reminder is due.  No file operation fails.                              *)
(***************************************************************************)
NextDelay ==
    \/ \E amount \in Amounts, unit \in Units : execute(<<"a">>, amount, unit)
    \/ DeferReturns(TRUE)
    \/ LoadReturns({"ok"})
    \/ SaveOpen({"ok"})
    \/ SaveData({"ok"})
    \/ ReplyReturns
    \/ Elapse
    \/ TimerDue
    \/ minutes >= cmd.due /\ TimeoutFires

SpecDelay == InitRemind /\ [][NextDelay]_vars

(***************************************************************************)
(* SpecCrash: one caller writes and reads a fresh document; the process    *)
(* can be killed at every step.  No file operation fails.                  *)
(***************************************************************************)
InitCrash ==
    /\ fs = NoFiles
    /\ InitTasks /\ InitMutex /\ InitTimers /\ InitApp

NextCrash ==
    \/ \E v \in Values, sync \in BOOLEAN : StartWrite(1, v, sync, MaxOps)
    \/ \E sync \in BOOLEAN : StartRead(1, sync, MaxOps)
    \/ WriteFileOpen(1, {"ok"})
    \/ WriteFileData(1, {"ok"})
    \/ WriteAccess(1)
    \/ WriteCopy(1, {"ok"})
    \/ WriteRename(1, {"ok"})
    \/ ReadMain(1, {"ok"})
    \/ ReadBackup(1, {"ok"})
    \/ Kill

SpecCrash == InitCrash /\ [][NextCrash]_vars

(***************************************************************************)
(* SpecStore: one caller writes and reads a document whose files start in  *)
(* any state; every file operation can fail.                               *)
(***************************************************************************)
InitStore ==
    /\ fs \in [FileNames -> FileStates]
    /\ fs[TempPath(FilePath)] \in {NoFile, File(<<"[">>)}
    /\ InitTasks /\ InitMutex /\ InitTimers /\ InitApp

NextStore ==
    \/ \E v \in Values, sync \in BOOLEAN : StartWrite(1, v, sync, MaxStoreOps)
    \/ \E sync \in BOOLEAN : StartRead(1, sync, MaxStoreOps)
    \/ StoreStep(1, {"ok", "fail"})

SpecStore == InitStore /\ [][NextStore]_vars

(***************************************************************************)
(* SpecRestore: the main file is unparsable and the backup holds a         *)
(* document; one caller reads, and the process can be killed at every      *)
(* step of the read and of its restore.  No file operation fails.          *)
(***************************************************************************)
InitRestore ==
    /\ fs \in [FileNames -> FileStates]
    /\ fs[FilePath] \in {File(<<>>), File(<<"[">>)}
    /\ JSONparse(fs[BackupPath(FilePath)].data).ok
    /\ fs[TempPath(FilePath)] \in {NoFile, File(<<"[">>)}
    /\ InitTasks /\ InitMutex /\ InitTimers /\ InitApp

NextRestore ==
    \/ \E sync \in BOOLEAN : StartRead(1, sync, MaxOps)
    \/ ReadMain(1, {"ok"})
    \/ ReadBackup(1, {"ok"})
    \/ WriteFileOpen(1, {"ok"})
    \/ WriteFileData(1, {"ok"})
    \/ WriteAccess(1)
    \/ WriteCopy(1, {"ok"})
    \/ WriteRename(1, {"ok"})
    \/ Kill

SpecRestore == InitRestore /\ [][NextRestore]_vars

(***************************************************************************)
(* SpecRace: the main file is missing or unparsable and the backup holds a *)
(* document; task 1 reads with readJsonWithRecovery (as initializeReminders*)
(* does at reminderManager.js line 149, outside the mutex) while task 2    *)
(* writes with writeJsonAtomic.  No file operation fails by itself.        *)
(***************************************************************************)
InitRace ==
    /\ fs \in [FileNames -> FileStates]
    /\ fs[FilePath] \in {NoFile, File(<<"[">>)}
    /\ JSONparse(fs[BackupPath(FilePath)].data).ok
    /\ fs[TempPath(FilePath)] = NoFile
    /\ InitTasks /\ InitMutex /\ InitTimers /\ InitApp

NextRace ==
    \/ StartRead(1, FALSE, MaxStoreOps)
    \/ \E v \in Values : StartWrite(2, v, FALSE, MaxStoreOps)
    \/ \E t \in {1, 2} : StoreStep(t, {"ok"})

SpecRace == InitRace /\ [][NextRace]_vars

(***************************************************************************)
(* Mutex (asyncMutex.js).  The mutex is the pair locked, queue; a queued   *)
(* resolve function is named by the task it resumes.                       *)
(***************************************************************************)
Errors == {"E1", "E2"}

\* acquire(): the promise executor, run synchronously by the caller
AcquireNoLock(m, t) == [locked |-> m.locked, queue |-> m.queue, granted |-> TRUE]
Acquire(m, t) ==
    IF m.locked
    THEN [locked |-> TRUE, queue |-> Append(m.queue, t), granted |-> FALSE]
    ELSE [locked |-> TRUE, queue |-> m.queue, granted |-> TRUE]

\* release(): next is the task whose resolve function is called (0: none)
ReleaseAlwaysUnlocks(m) ==
    IF Len(m.queue) > 0
    THEN [locked |-> FALSE, queue |-> Tail(m.queue), next |-> Head(m.queue)]
    ELSE [locked |-> FALSE, queue |-> m.queue, next |-> 0]
ReleasePop(m) ==
    IF Len(m.queue) > 0
    THEN [locked |-> m.locked, queue |-> SubSeq(m.queue, 1, Len(m.queue) - 1),
          next |-> m.queue[Len(m.queue)]]
    ELSE [locked |-> FALSE, queue |-> m.queue, next |-> 0]
ReleaseDropsWaiter(m) ==
    IF Len(m.queue) > 0
    THEN [locked |-> m.locked, queue |-> Tail(m.queue), next |-> 0]
    ELSE [locked |-> FALSE, queue |-> m.queue, next |-> 0]
Release(m) ==
    IF Len(m.queue) > 0
    THEN [locked |-> m.locked, queue |-> Tail(m.queue), next |-> Head(m.queue)]
    ELSE [locked |-> FALSE, queue |-> m.queue, next |-> 0]

\* the task is inside the function passed to runExclusive
InFn(t) ==
    /\ task[t].op \in {"excl", "add", "remove", "save"}
    /\ task[t].pc \notin {"idle", "waiting", "granted", "release", "done"}

\* the task holds the mutex: granted and not yet through release()
Holds(t) ==
    /\ task[t].op \in {"excl", "add", "remove", "save"}
    /\ task[t].pc \notin {"idle", "waiting", "done"}

\* runExclusive(fn) is called: acquire() runs at once (line 23).  item is the
\* reminder of addReminder ("" for another fn).
RunExclusive(t, op, item) ==
    /\ ~Busy(t)
    /\ Len(arrivals) < MaxArrivals
    /\ LET a == Acquire([locked |-> locked, queue |-> queue], t) IN
         /\ locked' = a.locked
         /\ queue' = a.queue
         /\ task' = [task EXCEPT ![t] =
                       [IdleTask EXCEPT !.op = op, !.item = item,
                                        !.pc = IF a.granted THEN "granted" ELSE "waiting",
                                        !.late = \E u \in Tasks : task[u].pc = "granted"
                                                                  /\ task[u].woken]]
    /\ arrivals' = Append(arrivals, t)
    /\ UNCHANGED <<storeVars, nops, prev, entered, timerVars, appVars>>

\* the await of acquire() resumes and fn() is called (line 25): for addReminder
\* and removeReminder, fn runs to its first await, the readFile of
\* readJsonWithRecovery(REMINDERS_FILE, []); for the save of initializeReminders,
\* to the writeFile of writeJsonAtomic(REMINDERS_FILE, activeReminders)
Enter(t) ==
    /\ task[t].pc = "granted"
    /\ task' = [task EXCEPT ![t] =
                  IF task[t].op \in {"add", "remove"}
                  THEN [task[t] EXCEPT !.pc = "r_readMain",
                                       !.stack = IF task[t].op = "add" THEN <<"add_read">>
                                                 ELSE <<"remove_read">>,
                                       !.dflt = <<>>,
                                       !.snapMain = fs[FilePath],
                                       !.snapBak = fs[BackupPath(FilePath)]]
                  ELSE IF task[t].op = "save"
                  THEN [task[t] EXCEPT !.pc = "w_writeFile", !.stack = <<"init_written">>]
                  ELSE [task[t] EXCEPT !.pc = "fn"]]
    /\ entered' = Append(entered, t)
    /\ UNCHANGED <<storeVars, nops, prev, locked, queue, arrivals, timerVars, appVars>>

\* a function that is not modelled further returns, or throws e
FnSettles(t) ==
    /\ task[t].pc = "fn"
    /\ \E e \in Errors \cup {""} :
         task' = [task EXCEPT ![t] = Settled(task[t], e)]
    /\ UNCHANGED <<storeVars, nops, prev, mutexVars, timerVars, appVars>>

\* finally { this.release() } (lines 26-28, 50-57), then the result of fn
\* reaches the caller of runExclusive
ReleaseStep(t) ==
    /\ task[t].pc = "release"
    /\ LET r == Release([locked |-> locked, queue |-> queue]) IN
         /\ locked' = r.locked
         /\ queue' = r.queue
         /\ task' = [u \in Tasks |->
                       IF u = t
                       THEN [task[t] EXCEPT !.pc = "done",
                                            !.releases = @ + 1,
                                            !.out = IF task[t].thrown = "" THEN "ret" ELSE "throw",
                                            !.err = task[t].thrown]
                       ELSE IF u = r.next
                       THEN [task[u] EXCEPT !.pc = "granted", !.woken = TRUE]
                       ELSE task[u]]
    /\ UNCHANGED <<storeVars, nops, prev, arrivals, entered, timerVars, appVars>>

(***************************************************************************)
(* initializeReminders, reminderManager.js lines 148-209.  A reminder of   *)
(* the file is one of the tokens of Items: "r4" stands for one that fails  *)
(* validateReminder, "r5" for one whose reminderTime has passed.           *)
(***************************************************************************)
Invalid == {"r4"}
Overdue == {"r5"}

RECURSIVE Keep(_, _)
\* the elements of v that are not in drop, in order
Keep(v, drop) ==
    IF v = <<>> THEN <<>>
    ELSE (IF Head(v) \in drop THEN <<>> ELSE <<Head(v)>>) \o Keep(Tail(v), drop)

\* validateReminders(reminders).validReminders, sanitize.js lines 380-401
validateReminders(v) == Keep(v, Invalid)

\* the reminders with timeLeft > 0 (lines 161-166, 195)
activeReminders(v) == Keep(validateReminders(v), Overdue)

\* timerManager.setTimeout(`reminder-${reminder.id}`, ...) for every reminder
\* of items, in order (lines 161-193)
ScheduleAll(items) ==
    LET n == Len(items)
        name(i) == ReminderTimer(items[i])
        lastOf(nm) == CHOOSE i \in 1..n : name(i) = nm /\ \A j \in (i + 1)..n : name(j) # nm
        named == {name(i) : i \in 1..n}
        replaced == {timers["timeout"][nm] : nm \in named} \ {0}
    IN  /\ ntimerops + n <= MaxTimerOps
        /\ ntimerops' = ntimerops + n
        /\ nextId' = nextId + n
        /\ IF isShuttingDown \/ n = 0
           THEN UNCHANGED <<timers, live>>
           ELSE /\ timers' = [timers EXCEPT !["timeout"] =
                                 [nm \in Names |-> IF nm \in named
                                                   THEN nextId + lastOf(nm) - 1 ELSE @[nm]]]
                /\ live' = {e \in live : e.id \notin replaced}
                              \cup {[id |-> nextId + lastOf(nm) - 1, kind |-> "timeout",
                                      name |-> nm, reg |-> TRUE,
                                      over |-> timers["timeout"][nm]] : nm \in named}
        /\ last' = IF n = 0 THEN last
                   ELSE Call("register", "timeout", name(n),
                             IF isShuttingDown THEN 0 ELSE nextId + n - 1,
                             IF isShuttingDown THEN {} ELSE replaced)
        /\ UNCHANGED <<isShuttingDown, sleeps>>

\* initializeReminders(client) up to the await of readJsonWithRecovery (line
\* 149), which is called without the mutex
initializeReminders(t) ==
    /\ ~Busy(t)
    /\ task' = [task EXCEPT ![t] =
                  [IdleTask EXCEPT !.pc = "r_readMain", !.op = "init",
                                   !.stack = <<"init_read">>, !.dflt = <<>>,
                                   !.snapMain = fs[FilePath],
                                   !.snapBak = fs[BackupPath(FilePath)]]]
    /\ UNCHANGED <<storeVars, nops, prev, mutexVars, timerVars, appVars>>

\* the read has returned: the reminders are validated, the timers of the
\* active ones are registered, and reminderMutex.runExclusive is called for
\* the save of the active ones; its acquire() runs at once (lines 152-200)
InitReadReturns(t) ==
    /\ task[t].pc = "init_read"
    /\ Len(arrivals) < MaxArrivals
    /\ ScheduleAll(activeReminders(task[t].val))
    /\ LET a == Acquire([locked |-> locked, queue |-> queue], t) IN
         /\ locked' = a.locked
         /\ queue' = a.queue
         /\ task' = [task EXCEPT ![t] =
                       [@ EXCEPT !.op = "save", !.data = activeReminders(task[t].val),
                                 !.pc = IF a.granted THEN "granted" ELSE "waiting",
                                 !.late = \E u \in Tasks : task[u].pc = "granted"
                                                           /\ task[u].woken]]
    /\ arrivals' = Append(arrivals, t)
    /\ UNCHANGED <<storeVars, nops, prev, entered, appVars>>

(***************************************************************************)
(* SpecMutex: callers run functions under one Mutex, again and again.      *)
(***************************************************************************)
InitMutexSpec ==
    /\ fs = NoFiles
    /\ InitTasks /\ InitMutex /\ InitTimers /\ InitApp

NextMutex ==
    \E t \in Tasks :
        \/ RunExclusive(t, "excl", "")
        \/ Enter(t)
        \/ FnSettles(t)
        \/ ReleaseStep(t)

SpecMutex == InitMutexSpec /\ [][NextMutex]_vars

(***************************************************************************)
(* SpecMutexFair: every task calls runExclusive once, under the scheduling *)
(* of the event loop: a resolved acquire() is resumed (Enter), every       *)
(* function run under the mutex completes (FnSettles), and the finally     *)
(* block runs (ReleaseStep).  When runExclusive is called is left open.    *)
(***************************************************************************)
NextMutexFair ==
    \E t \in Tasks :
        \/ task[t].pc = "idle" /\ RunExclusive(t, "excl", "")
        \/ Enter(t)
        \/ FnSettles(t)
        \/ ReleaseStep(t)

SpecMutexFair ==
    /\ InitMutexSpec /\ [][NextMutexFair]_vars
    /\ \A t \in Tasks : /\ WF_vars(Enter(t))
                        /\ WF_vars(FnSettles(t))
                        /\ WF_vars(ReleaseStep(t))

(***************************************************************************)
(* SpecReminders: every task calls addReminder once, with its own          *)
(* reminder; the calls run concurrently.  No file operation fails.         *)
(***************************************************************************)
ReminderOf(t) == AllItems[t]

InitReminders ==
    /\ fs \in {NoFiles,
               [NoFiles EXCEPT ![FilePath] = File(JSONstringify(<<>>))],
               [NoFiles EXCEPT ![FilePath] = File(JSONstringify(<<"r6">>)),
                               ![BackupPath(FilePath)] = File(JSONstringify(<<>>))],
               [NoFiles EXCEPT ![BackupPath(FilePath)] = File(JSONstringify(<<"r6">>))]}
    /\ InitTasks /\ InitMutex /\ InitTimers /\ InitApp

NextReminders ==
    \E t \in Tasks :
        \/ task[t].pc = "idle" /\ RunExclusive(t, "add", ReminderOf(t))
        \/ Enter(t)
        \/ WriteFileOpen(t, {"ok"})
        \/ WriteFileData(t, {"ok"})
        \/ WriteAccess(t)
        \/ WriteCopy(t, {"ok"})
        \/ WriteRename(t, {"ok"})
        \/ ReadMain(t, {"ok"})
        \/ ReadBackup(t, {"ok"})
        \/ ReleaseStep(t)

SpecReminders == InitReminders /\ [][NextReminders]_vars

(***************************************************************************)
(* SpecInit: task 1 runs initializeReminders while every other task calls  *)
(* addReminder with its own reminder, or removeReminder("r6"), once.  No   *)
(* file operation fails.                                                   *)
(***************************************************************************)
InitInit ==
    /\ fs \in {NoFiles,
               [NoFiles EXCEPT ![FilePath] = File(JSONstringify(<<"r6">>))],
               [NoFiles EXCEPT ![FilePath] = File(JSONstringify(<<"r5", "r6">>)),
                               ![BackupPath(FilePath)] = File(JSONstringify(<<"r5">>))],
               [NoFiles EXCEPT ![FilePath] = File(JSONstringify(<<"r4", "r6">>))]}
    /\ InitTasks /\ InitMutex /\ InitTimers /\ InitApp

NextInit ==
    \/ task[1].pc = "idle" /\ initializeReminders(1)
    \/ InitReadReturns(1)
    \/ \E t \in Tasks \ {1} : task[t].pc = "idle" /\ RunExclusive(t, "add", ReminderOf(t))
    \/ \E t \in Tasks \ {1} : task[t].pc = "idle" /\ RunExclusive(t, "remove", "r6")
    \/ \E t \in Tasks :
           \/ Enter(t)
           \/ WriteFileOpen(t, {"ok"})
           \/ WriteFileData(t, {"ok"})
           \/ WriteAccess(t)
           \/ WriteCopy(t, {"ok"})
           \/ WriteRename(t, {"ok"})
           \/ ReadMain(t, {"ok"})
           \/ ReadBackup(t, {"ok"})
           \/ ReleaseStep(t)

SpecInit == InitInit /\ [][NextInit]_vars

(***************************************************************************)
(* SpecFire: /remindme has registered the reminder "r6", or "r5" and "r6", *)
(* earlier in this run; their timers fire at any moment, the sending       *)
(* succeeds or fails, and one more /remindme command with a valid text and *)
(* amount runs at the same time.  No file operation fails.                 *)
(***************************************************************************)
InitFire ==
    /\ \E held \in {<<"r6">>, <<"r5", "r6">>} :
          /\ fs = [NoFiles EXCEPT ![FilePath] = File(JSONstringify(held))]
          /\ timers = [k \in Kinds |-> [n \in Names |->
                          IF k = "timeout" /\ \E i \in 1..Len(held) : n = ReminderTimer(held[i])
                          THEN CHOOSE i \in 1..Len(held) : n = ReminderTimer(held[i])
                          ELSE 0]]
          /\ live = {[id |-> i, kind |-> "timeout", name |-> ReminderTimer(held[i]),
                       reg |-> TRUE, over |-> 0] : i \in 1..Len(held)}
          /\ nextId = Len(held) + 1
          /\ ntimerops = Len(held)
    /\ isShuttingDown = FALSE
    /\ last = NoCall
    /\ sleeps = {}
    /\ InitTasks /\ InitMutex /\ InitApp

NextFire ==
    \/ execute(<<"a">>, [int |-> TRUE, n |-> 1], "minutes")
    \/ DeferReturns(TRUE)
    \/ LoadReturns({"ok"})
    \/ SaveOpen({"ok"})
    \/ SaveData({"ok"})
    \/ ReplyReturns
    \/ TimeoutFires
    \/ \E i \in Items, o \in {"ok", "fail"} : SendSettles(i, o)
    \/ \E i \in Items : RemoveLoads(i)
    \/ \E i \in Items : RemoveOpens(i)
    \/ \E i \in Items : RemoveWrites(i)

SpecFire == InitFire /\ [][NextFire]_vars

(***************************************************************************)
(* Claims about the durable store.                                         *)
(***************************************************************************)

\* C1: after any sequence of writes with the process killed at any step, a
\* completed readJsonWithRecovery returns the value of the last write whose
\* rename completed or the value committed just before it, and the default
\* only when nothing was ever committed.
C1_CrashSafeRead ==
    LET fr == task[1]
        n == Len(committed) IN
    (fr.pc = "done" /\ fr.op = "read") =>
        /\ fr.out = "ret"
        /\ IF n = 0 THEN fr.val = DefaultValue
           ELSE \/ fr.val = committed[n]
                \/ n > 1 /\ fr.val = committed[n - 1]

\* a read that ran after a write was killed after its backup copy and before
\* its rename: the temp file holds a complete document that was never committed
C1_Witness ==
    LET fr == task[1]
        tmp == fs[TempPath(FilePath)] IN
    /\ fr.pc = "done" /\ fr.op = "read"
    /\ Len(committed) >= 1
    /\ fr.val = committed[Len(committed)]
    /\ tmp.exists /\ JSONparse(tmp.data).ok
    /\ JSONparse(tmp.data).val # fr.val
    /\ fs[BackupPath(FilePath)].exists

\* C6: a successful write of v followed by a read (whose main file can be
\* read) returns v, whatever the three files held before the write.
C6_RoundTrip ==
    LET fr == task[1] IN
    (/\ fr.pc = "done" /\ fr.op = "read"
     /\ prev[1].op = "write" /\ prev[1].out = "ret"
     /\ ~fr.mainFault)
        => (fr.out = "ret" /\ fr.val = prev[1].val)

\* a round trip of a non-empty document over a main file that was truncated
C6_Witness ==
    LET fr == task[1] IN
    /\ fr.pc = "done" /\ fr.op = "read"
    /\ prev[1].op = "write" /\ prev[1].out = "ret"
    /\ ~fr.mainFault
    /\ fr.val = <<"r1">>
    /\ ~JSONparse(fs[BackupPath(FilePath)].data).ok
    /\ fs[BackupPath(FilePath)].exists

\* C7: with the main file missing and a parsable backup, a read returns the
\* backup's value, and the read after it returns the same value, whether or not
\* the restore of the main file succeeded.
C7_BackupRecovery ==
    LET fr == task[1] IN
    /\ (/\ fr.pc = "done" /\ fr.op = "read"
        /\ ~fr.snapMain.exists
        /\ fr.snapBak.exists /\ JSONparse(fr.snapBak.data).ok
        /\ ~fr.bakFault)
           => (fr.out = "ret" /\ fr.val = JSONparse(fr.snapBak.data).val)
    /\ (/\ fr.pc = "done" /\ fr.op = "read"
        /\ prev[1].recovered
        /\ ~fr.mainFault /\ ~fr.bakFault)
           => (fr.out = "ret" /\ fr.val = prev[1].val)

\* the second read after a recovery whose restore failed: the main file is
\* still missing when the second read starts
C7_Witness ==
    LET fr == task[1] IN
    /\ fr.pc = "done" /\ fr.op = "read"
    /\ prev[1].recovered
    /\ ~fr.snapMain.exists
    /\ ~fr.mainFault /\ ~fr.bakFault
    /\ fr.val = <<"r1">>

\* C8: when the backup copy or the rename of a write fails, the temp file is
\* removed, the error is thrown and the main file holds the bytes it held before
\* the call.  Stated for the calls whose cleanup unlink did not itself fail
\* (the code ignores that failure, line 42), which only narrows the cases.
C8_FailedWriteLeavesOriginal ==
    LET fr == task[1] IN
    (/\ fr.pc = "done" /\ fr.op = "write"
     /\ fr.failed \in {"copy", "rename"}
     /\ ~fr.cleanupFailed)
        => /\ fr.out = "throw"
           /\ ~fs[TempPath(FilePath)].exists
           /\ fs[FilePath] = fr.snapMain

\* what the read returns by the claim: the main value, else the backup value,
\* else the default
ExpectedRead(fr) ==
    IF ~fr.mainFault /\ fr.snapMain.exists /\ JSONparse(fr.snapMain.data).ok
    THEN JSONparse(fr.snapMain.data).val
    ELSE IF ~fr.bakFault /\ fr.snapBak.exists /\ JSONparse(fr.snapBak.data).ok
    THEN JSONparse(fr.snapBak.data).val
    ELSE fr.dflt

\* C9: readJsonWithRecovery never throws; for every state of the main and the
\* backup file (missing, unreadable, unparsable, valid), and also when the
\* restore write fails, it returns the main value, else the backup value, else
\* the default.
C9_ReadNeverThrows ==
    LET fr == task[1] IN
    (fr.pc = "done" /\ fr.op = "read")
        => (fr.out = "ret" /\ fr.val = ExpectedRead(fr))

\* a read that fell back to the backup and whose restore failed at the rename
C9_Witness ==
    LET fr == task[1] IN
    /\ fr.pc = "done" /\ fr.op = "read"
    /\ fr.failed = "rename"
    /\ fr.snapMain.exists /\ ~JSONparse(fr.snapMain.data).ok
    /\ fr.val = <<"r1">>

(***************************************************************************)
(* Claims about the mutex and the reminder file.                           *)
(***************************************************************************)
AllDone == \A t \in Tasks : task[t].pc = "done"

Range(s) == {s[i] : i \in 1..Len(s)}

\* C2: when n callers run addReminder concurrently, the document finally holds
\* what it held before and exactly the n appended reminders, each once.
C2_NoLostUpdate ==
    AllDone =>
        LET doc == JSONparse(fs[FilePath].data) IN
        /\ fs[FilePath].exists /\ doc.ok
        /\ Len(doc.val) = Len(initDoc) + NTasks
        /\ Range(doc.val) = Range(initDoc) \cup {ReminderOf(t) : t \in Tasks}
        /\ \A t \in Tasks : task[t].out = "ret"

\* all callers called addReminder before the first one left its critical
\* section: all but one were queued and woken by a release
C2_Witness ==
    /\ AllDone
    /\ Cardinality({t \in Tasks : task[t].woken}) = NTasks - 1
    /\ arrivals[1] # 1
    /\ Len(initDoc) = 1

\* C3: at most one caller is inside the function passed to runExclusive.
C3_MutualExclusion == Cardinality({t \in Tasks : InFn(t)}) <= 1

\* a caller is inside its function while others wait and one has already finished
C3_Witness ==
    /\ \E t \in Tasks : InFn(t)
    /\ Len(queue) = NTasks - 1
    /\ Len(entered) >= 2

\* C4: callers enter their critical sections in the order of their acquire calls.
C4_Fifo ==
    /\ Len(entered) <= Len(arrivals)
    /\ \A i \in 1..Len(entered) : entered[i] = arrivals[i]

\* a caller that arrived between a release and the resumption of the woken
\* waiter is inside its function, after that waiter
C4_Witness ==
    \E t \in Tasks : InFn(t) /\ task[t].late /\ task[t].woken

\* C5: when fn throws, the mutex is released and the same error reaches the
\* caller; on every exit path the mutex is released exactly once, so it is
\* locked exactly while a caller holds it, and nobody waits on a free mutex.
C5_ReleaseOnThrow ==
    /\ \A t \in Tasks :
          (task[t].pc = "done" /\ task[t].op = "excl") =>
              /\ task[t].releases = 1
              /\ IF task[t].thrown = "" THEN task[t].out = "ret"
                 ELSE task[t].out = "throw" /\ task[t].err = task[t].thrown
    /\ locked <=> \E t \in Tasks : Holds(t)
    /\ ~locked => queue = <<>>

\* fn threw while another caller was queued: that caller was granted the mutex
\* and the error reached the caller
C5_Witness ==
    \E t, u \in Tasks :
        /\ task[t].pc = "done" /\ task[t].op = "excl"
        /\ task[t].out = "throw" /\ task[t].err = "E2"
        /\ task[u].pc = "granted" /\ task[u].woken

\* C39: every caller waiting on the mutex eventually enters its critical
\* section, provided every function run under the mutex completes; no
\* waiter is left queued while the mutex is unlocked.
C39_WaitersEnter ==
    /\ \A t \in Tasks : (task[t].pc = "waiting") ~> InFn(t)
    /\ [](~locked => queue = <<>>)

\* every caller but the first had to wait, and the last of them is inside
\* its function
C39_Witness ==
    /\ Len(entered) = NTasks
    /\ \A i \in 2..NTasks : task[entered[i]].woken
    /\ InFn(entered[NTasks])

\* C40: for every delay that validateTimeAmount accepts, the callback of the
\* reminder's timer does not start before the reminder's reminderTime.
C40_NotBeforeReminderTime ==
    [][(cb["r1"].pc = "idle" /\ cb'["r1"].pc = "send")
           => minutes' >= cmd.reminderTime]_vars

(***************************************************************************)
(* Claims about the timer registry.                                        *)
(***************************************************************************)
LiveEntries(kinds, name) == {e \in live : e.reg /\ e.kind \in kinds /\ e.name = name}

C11_DrainedRegistry ==
    isShuttingDown =>
        /\ Tracked(timers) = {}
        /\ \A e \in live : ~e.reg /\ e.kind # "timeout"
        /\ last.op = "clearAll" => \A e \in live : e.id \notin last.cancelled
        /\ (last.op = "register" /\ last.kind = "timeout") =>
               last.ret = 0 /\ last.cancelled = {}

\* setTimeout was called after a clearAll and returned null
C11_Witness ==
    /\ isShuttingDown
    /\ last.op = "register" /\ last.kind = "timeout"
    /\ last.draining /\ last.ret = 0
    /\ nextId > 2

\* C12: the shutting-down state, once entered, is never left, and from then on
\* nothing handed to the registry is running: no timer or cron job is live and
\* no callback starts.
C12_NothingRunsAfterDrain ==
    /\ last.draining => isShuttingDown
    /\ isShuttingDown => live = {} /\ last.op # "fire"

\* C13: a clearAll called when the registry is already shutting down changes
\* nothing in the registry (the Maps stay empty, the flag stays set) and
\* cancels nothing.
C13_ClearAllIdempotent ==
    [][(isShuttingDown /\ last'.op = "clearAll" /\ clearAll) =>
           /\ UNCHANGED <<timers, live, isShuttingDown>>
           /\ Tracked(timers') = {}
           /\ isShuttingDown'
           /\ last'.cancelled = {}]_vars

\* clearAll was called a second time
C13_Witness ==
    /\ last.op = "clearAll" /\ last.draining
    /\ nextId > 1

\* C14: clearTimeout / clearInterval / stopCron(name) cancels and removes the
\* entry of that kind under the name when there is one, changes nothing when
\* there is none, and in both cases every other entry stays live and tracked.
C14_CancelByName ==
    [][\A k \in Kinds, n \in Names :
          (last'.op = "cancel" /\ last'.kind = k /\ last'.name = n /\ Cancel(k, n)) =>
              /\ timers'[k][n] = 0
              /\ \A e \in live' : e.id # timers[k][n]
              /\ timers[k][n] = 0 => UNCHANGED <<timers, live>>
              /\ \A j \in Kinds, m \in Names :
                     <<j, m>> # <<k, n>> => timers'[j][m] = timers[j][m]
              /\ \A e \in live : e.id # timers[k][n] => e \in live']_vars

\* a cancel by name removed an entry while an entry under another name stays
\* live and tracked
C14_Witness ==
    /\ last.op = "cancel" /\ last.cancelled # {}
    /\ timers[last.kind][last.name] = 0
    /\ \E e \in live : e.reg /\ e.name # last.name /\ timers[e.kind][e.name] = e.id

(***************************************************************************)
(* Claims about fetchWithRetry.                                            *)
(***************************************************************************)
FirstOk(results) ==
    IF \E i \in 1..Len(results) : results[i] = "ok"
    THEN CHOOSE i \in 1..Len(results) :
             results[i] = "ok" /\ \A j \in 1..(i - 1) : results[j] = "fail"
    ELSE 0

\* C15: parser.parseURL is called at most maxRetries times; the result of the
\* first call that succeeds is returned and no call follows it; when all
\* maxRetries calls fail the error of the last one is thrown.  Failing twice
\* then succeeding gives the third call's result after 3 calls with
\* maxRetries = 3 and the second failure after 2 calls with maxRetries = 2.
C15_FetchWithRetry ==
    LET fr == fetch
        settled == fr.pc = "done"
    IN  /\ fr.calls <= fr.maxRetries
        /\ Len(fr.results) <= fr.calls
        /\ FirstOk(fr.results) # 0 =>
               /\ FirstOk(fr.results) = fr.calls
               /\ settled /\ fr.out = "ret" /\ fr.val = FirstOk(fr.results)
        /\ (Len(fr.results) = fr.maxRetries /\ FirstOk(fr.results) = 0 /\ fr.maxRetries > 0) =>
               /\ settled /\ fr.out = "throw" /\ fr.err = ErrorOf(fr.maxRetries)
               /\ fr.calls = fr.maxRetries
        /\ (fr.maxRetries = 3 /\ fr.results = <<"fail", "fail", "ok">>) =>
               settled /\ fr.out = "ret" /\ fr.val = 3 /\ fr.calls = 3
        /\ (fr.maxRetries = 2 /\ fr.results = <<"fail", "fail">>) =>
               settled /\ fr.out = "throw" /\ fr.err = ErrorOf(2) /\ fr.calls = 2

\* two failures, then a success, with maxRetries = 3
C15_Witness ==
    /\ fetch.pc = "done" /\ fetch.maxRetries = 3
    /\ fetch.results = <<"fail", "fail", "ok">>
    /\ Len(fetch.waits) = 2

\* the waits of successive retries, in milliseconds
ExpectedWaits == <<2000, 4000, 8000, 16000, 30000, 30000, 30000>>

\* C16: the wait after the failed attempt number i is min(1000 * 2^i, 30000)
\* ms: no wait exceeds 30000, no wait is shorter than the one before it, and
\* the last failed attempt is followed by no wait.
C16_Backoff ==
    LET w == fetch.waits
    IN  /\ \A i \in 1..Len(w) : w[i] <= 30000 /\ w[i] = ExpectedWaits[i]
        /\ \A i \in 1..(Len(w) - 1) : w[i] <= w[i + 1]
        /\ Len(w) <= Len(fetch.results)
        /\ fetch.maxRetries > 0 => Len(w) < fetch.maxRetries
        /\ (fetch.pc = "done" /\ fetch.err.kind = "fetch") =>
               Len(w) = Len(fetch.results) - 1

\* every attempt of a call with maxRetries = 6 failed: the fifth wait is capped
C16_Witness ==
    /\ fetch.pc = "done" /\ fetch.err = ErrorOf(6)
    /\ Len(fetch.waits) = 5 /\ fetch.waits[5] = 30000 /\ fetch.waits[4] = 16000

\* clearAll cancelled the sleep fetchWithRetry is waiting in or was waiting in
SleepCancelled ==
    \/ fetch.cancelled
    \/ fetch.pc = "sleep" /\ CancelledByClearAll(fetch.sleepId)

\* C17: when clearAll cancels the sleep between two attempts, fetchWithRetry
\* calls parser.parseURL no more and settles only by throwing the
\* cancellation error: it returns no feed.
C17_CancelledFetch ==
    SleepCancelled =>
        /\ fetch.calls = Len(fetch.waits)
        /\ fetch.calls = Len(fetch.results)
        /\ fetch.pc \in {"sleep", "done"}
        /\ fetch.pc = "done" =>
               fetch.out = "throw" /\ fetch.err = Cancelled /\ fetch.val = 0

\* a fetchWithRetry whose sleep clearAll cancelled has thrown
C17_Witness ==
    /\ fetch.cancelled /\ isShuttingDown
    /\ fetch.pc = "done" /\ fetch.err = Cancelled
    /\ fetch.calls < fetch.maxRetries

(***************************************************************************)
(* Claims about the dedup record.                                          *)
(***************************************************************************)
\* the last n elements of h, in order
LastN(h, n) ==
    LET m == IF Len(h) < n THEN Len(h) ELSE n
    IN  [i \in 1..m |-> h[Len(h) - m + i]]

FirstKeys(n) == [i \in 1..n |-> i]

\* C18: each list of the dedup record holds at most 10 keys: the latest ones
\* marked, in the order in which they were marked.  After 15 marks with the
\* distinct keys 1..15 it holds 6..15.
C18_DedupCapacity ==
    LET U == posted.data.updatePosts
        P == posted.data.redditPosts
    IN  /\ Len(U) <= 10 /\ Len(P) <= 10
        /\ U = LastN(marks.u, 10)
        /\ P = LastN(marks.saved, 10)
        /\ marks.u = FirstKeys(15) => U = <<6, 7, 8, 9, 10, 11, 12, 13, 14, 15>>
        /\ marks.saved = FirstKeys(15) => P = <<6, 7, 8, 9, 10, 11, 12, 13, 14, 15>>

\* 15 distinct keys were marked on updatePosts
C18_Witness ==
    /\ marks.u = FirstKeys(15)
    /\ Len(posted.data.updatePosts) = 10 /\ posted.data.updatePosts[1] = 6

\* C37: recording a key in one namespace of postedItems.json leaves the
\* list of the other namespace, as the file and its backup hold it,
\* unchanged: markUpdatePosted keeps redditPosts, savePostedItems keeps
\* updatePosts, also when the file has no backup or does not parse.
C37_NamespacesIndependent ==
    [][/\ (\E k \in MarkKeys(marks.u, loadUpdatesFile.updatePosts) : markUpdatePosted(k))
           => readJsonWithRecoverySync(posted').redditPosts
                  = readJsonWithRecoverySync(posted).redditPosts
       /\ savePostedItems
           => readJsonWithRecoverySync(posted').updatePosts
                  = readJsonWithRecoverySync(posted).updatePosts]_vars

\* C38: a readJsonWithRecovery running concurrently with a writeJsonAtomic
\* on the same path never makes the write fail, never replaces the newly
\* committed value by the older backup value, and never leaves a partially
\* written main file.
C38_ReadNeverDisturbsWrite ==
    /\ \A t \in Tasks : (task[t].op = "write" /\ task[t].pc = "done") =>
           /\ task[t].out = "ret"
           /\ JSONparse(fs[FilePath].data) = ParseOk(task[t].data)
    /\ committed # <<>> => fs[FilePath].exists /\ JSONparse(fs[FilePath].data).ok

(***************************************************************************)
(* Claims about the feed poller.                                           *)
(***************************************************************************)
\* C19: the unseen posts are sent oldest first, each is in the redditPosts
\* list of postedItems.json from right after it was sent, and no post is
\* sent twice, also not by a process started after a kill.
C19_EmitThenRecord ==
    /\ \A i, j \in 1..Len(emitted) :
           (i < j /\ emitted[i].run = emitted[j].run) => emitted[i].item < emitted[j].item
    /\ \A i \in 1..Len(emitted) : Has(posted.data.redditPosts, emitted[i].item)
    /\ \A i, j \in 1..Len(emitted) : i # j => emitted[i].item # emitted[j].item

\* C27: when the sending of an item fails, the item's key is not in the
\* in-memory dedup record afterwards.
C27_RecordedOnlyIfSent ==
    [][(poll.pc = "posting" /\ poll'.pc = "waiting" /\ emitted' = emitted)
           => ~Has(postedItems', poll.newItems[poll.i])]_vars

\* C33: on a first run, once initRedditFeed has handled the feed every post
\* of the feed is in postedItems, and no post of the unchanged feed is ever
\* sent, neither by initRedditFeed nor by the checks that follow.
C33_FirstRunSendsNothing ==
    /\ emitted = <<>>
    /\ poll.pc = "waiting" => \A k \in 1..published : Has(postedItems, k)

\* C35: once clearAll has cancelled the delay between two posts of a batch,
\* no further post of that batch is sent.
C35_CancelledBatchStops ==
    [][poll.cut => emitted' = emitted]_vars

\* C36: the 'reddit-rss-check' timer is pending only while no run of
\* initRedditFeed or checkForNewPosts is in progress, and there is at most
\* one such timer; a fetchWithRetry is in progress only inside the one run;
\* and no two pending sleeps have the same name.
C36_OneRunAtATime ==
    /\ (\E e \in live : e.name = CheckName) => poll.pc = "waiting"
    /\ Cardinality({e \in live : e.name = CheckName}) <= 1
    /\ fetch.pc # "idle" => poll.pc = "fetching"
    /\ \A p, q \in sleeps :
           (p.res = "pending" /\ q.res = "pending" /\ p.name = q.name) => p = q
    /\ Cardinality({p \in sleeps : p.res = "pending"}) <= 1

\* a check started by the timer, after an earlier check had sent a post, is
\* waiting in the sleep before a retry of its fetch
C36_Witness ==
    /\ poll.pc = "fetching" /\ poll.stage = "check"
    /\ fetch.pc = "sleep"
    /\ last.op = "sleep"
    /\ ntimerops >= 2
    /\ emitted # <<>>
    /\ \E p \in sleeps : p.res = "pending" /\ p.name = RetryNames[1]

\* C34: within one process run no post is sent twice.
C34_NoDuplicateInRun ==
    \A i, j \in 1..Len(emitted) :
        (i # j /\ emitted[i].run = emitted[j].run) => emitted[i].item # emitted[j].item

(***************************************************************************)
(* Claims about the rate limiter.                                          *)
(***************************************************************************)
\* C20: with the default limits, when the first ten checks of a key fall
\* within one window they are all allowed; an eleventh check in that window
\* is denied with a positive retryAfter; and a check made retryAfter seconds
\* after that denial is allowed.
C20_BlockThenAllow ==
    LET h == calls
        inWindow(i) == h[i].at < h[1].at + 60000
    IN  /\ \A i \in 1..Len(h) : (i <= 10 /\ inWindow(i)) => h[i].ret.allowed
        /\ (Len(h) >= 11 /\ inWindow(11)) => ~h[11].ret.allowed /\ h[11].ret.retryAfter > 0
        /\ (Len(h) >= 12 /\ inWindow(11) /\ h[12].at = h[11].at + h[11].ret.retryAfter * 1000)
               => h[12].ret.allowed

CheckBy(userId) == calls' # calls /\ calls'[Len(calls')].user = userId
\* the step is a run of cleanup
CleanupRuns == UNCHANGED <<calls, now>>
Unexpired(userId) == blocked[userId] # 0 /\ now < blocked[userId]
Expired(userId) == blocked[userId] # 0 /\ now >= blocked[userId]
\* no timestamp of the key checked is outside the window after the check
Pruned ==
    LET c == calls'[Len(calls')]
        ts == userRequests'[c.user, c.command].timestamps
    IN  \A i \in 1..Len(ts) : ts[i] > now - 60000

\* a check under an unexpired block is denied with the remaining time in
\* whole seconds, rounded up, and records nothing
DeniedWhileBlocked(userId) ==
    (CheckBy(userId) /\ Unexpired(userId)) =>
        LET r == calls'[Len(calls')].ret
        IN  /\ ~r.allowed
            /\ r.retryAfter > 0
            /\ r.retryAfter * 1000 >= blocked[userId] - now
            /\ (r.retryAfter - 1) * 1000 < blocked[userId] - now
            /\ \A c \in Commands :
                   Len(userRequests'[userId, c].timestamps) <= Len(userRequests[userId, c].timestamps)
            /\ blocked' = blocked

\* the block entry goes away at the first check by its actor or cleanup at or
\* after the expiry, and in no other step
RemovedAtExpiry(userId) ==
    /\ (blocked[userId] # 0 /\ blocked'[userId] # blocked[userId]) =>
           /\ now >= blocked[userId]
           /\ CheckBy(userId) \/ CleanupRuns
    /\ (Expired(userId) /\ (CheckBy(userId) \/ CleanupRuns)) =>
           blocked'[userId] # blocked[userId]

CountFound(c) == 10 - c.ret.remaining - 1
BelowThreshold(c) == c.ret.allowed /\ CountFound(c) < 8

\* between two warnings of one key there is a check of that key that found
\* the count below warnThreshold
WarnedOncePerClimb(h) ==
    \A i, j \in 1..Len(h) :
        (/\ i < j
         /\ h[i].user = h[j].user /\ h[i].command = h[j].command
         /\ h[i].ret.allowed /\ h[i].ret.warning
         /\ h[j].ret.allowed /\ h[j].ret.warning)
            => \E k \in (i + 1)..(j - 1) :
                   /\ h[k].user = h[i].user /\ h[k].command = h[i].command
                   /\ BelowThreshold(h[k])

\* a check that finds the count below warnThreshold resets the flag
FlagReset ==
    (calls' # calls /\ BelowThreshold(calls'[Len(calls')])) =>
        ~userRequests'[calls'[Len(calls')].user, calls'[Len(calls')].command].warned

\* C23: for one key, check returns allowed-with-warning at most once between
\* two checks that find the count below warnThreshold; a check that finds the
\* count below warnThreshold resets the warned flag; and the first check after
\* the block has expired is allowed.
C23_WarnedThenNormal ==
    [][/\ WarnedOncePerClimb(calls')
       /\ FlagReset
       /\ \A u \in Users : (CheckBy(u) /\ Expired(u)) => calls'[Len(calls')].ret.allowed]_vars

\* C24: the cleanup timer of the rate limiter is cancelled by clearAll as an
\* entry of the timer registry: once clearAll has been called the timer is no
\* longer running and cleanup is not invoked by it.
C24_CleanupCancelled ==
    isShuttingDown =>
           /\ \A e \in live : e.name # CleanupTimer
           /\ ~(last.op = "fire" /\ last.name = CleanupTimer /\ last.draining)

C26_WritesUnderMutex ==
    [][fs' # fs => locked /\ \E t \in Tasks : Holds(t) /\ task'[t] # task[t]]_vars

(***************************************************************************)
(* Claims about /remindme.                                                 *)
(***************************************************************************)
\* the validation error of the request in progress, "" when the text and the
\* time amount are both valid
ValidationError ==
    LET t == validateReminderText(cmd.text)
        a == validateTimeAmount(cmd.amount, cmd.unit)
    IN  IF ~t.valid THEN t.error ELSE IF ~a.valid THEN a.error ELSE ""

\* C28: a /remindme request whose text or time amount fails validation
\* leaves reminders.json as it was, registers no timer, and is answered with
\* the validation error.
C28_RejectedWithoutEffect ==
    (cmd.pc # "idle" /\ ValidationError # "") =>
        /\ fs = cmd.fs0
        /\ nextId = cmd.tm0 /\ timers["timeout"][ReminderName] = 0 /\ live = {}
        /\ cmd.pc \in {"defer", "replyError", "done"}
        /\ cmd.pc = "replyError" => cmd.msg = ValidationError
        /\ cmd.pc = "done" => cmd.reply = ValidationError

\* a request with a valid text that sanitizing changed and 53 weeks was
\* answered, on a reminders.json that holds a reminder
C28_Witness ==
    /\ cmd.pc = "done"
    /\ validateReminderText(cmd.text).valid
    /\ validateReminderText(cmd.text).sanitized # cmd.text
    /\ cmd.amount = [int |-> TRUE, n |-> 53] /\ cmd.unit = "weeks"
    /\ cmd.reply = "Cannot set reminder for more than max"
    /\ fs[FilePath].exists

(***************************************************************************)
(* Claims about the recovery of a document.                                *)
(***************************************************************************)
Unparsable(file) == file.exists /\ ~JSONparse(file.data).ok

\* C29: a read that found the main file and the backup both present and
\* unparsable returns something else than the default value, which is what a
\* read returns when neither file exists (line 123).
C29_ParseFailureTold ==
    LET fr == task[1] IN
    (/\ fr.pc = "done" /\ fr.op = "read"
     /\ Unparsable(fr.snapMain) /\ Unparsable(fr.snapBak))
        => ~(fr.out = "ret" /\ fr.val = fr.dflt)

\* the file holds the document that the backup held at the start
HoldsDocument(file) ==
    file.exists /\ JSONparse(file.data).ok /\ JSONparse(file.data).val = initDoc

\* C30: with the main file unparsable and the backup valid, every read
\* returns the backup's value, also a read made after the process was killed
\* inside the restore, because at every step the main file or the backup
\* holds that value.
C30_RestoreKeepsDocument ==
    LET fr == task[1] IN
    /\ HoldsDocument(fs[FilePath]) \/ HoldsDocument(fs[BackupPath(FilePath)])
    /\ (fr.pc = "done" /\ fr.op = "read") => (fr.out = "ret" /\ fr.val = initDoc)

(***************************************************************************)
(* Claims about initializeReminders.                                       *)
(***************************************************************************)
\* C31: when initializeReminders and the concurrent addReminder and
\* removeReminder calls have all completed, reminders.json holds every
\* reminder that was added and does not hold the one that was removed.
C31_InitKeepsUpdates ==
    AllDone =>
        LET doc == JSONparse(fs[FilePath].data) IN
        /\ fs[FilePath].exists /\ doc.ok
        /\ \A t \in Tasks :
               /\ task[t].op = "add" => Has(doc.val, task[t].item)
               /\ task[t].op = "remove" => ~Has(doc.val, task[t].item)

(***************************************************************************)
(* Claims about the reminder timers.                                       *)
(***************************************************************************)
\* C32: when the callback of a reminder's timer completes, reminders.json
\* holds what it held when the callback began to write it, without that
\* reminder: the reminder is gone, whether or not the sending succeeded, and
\* every other reminder is still there.
C32_FiredReminderRemoved ==
    [][\A i \in Items :
           (cb[i].pc = "saveData" /\ cb'[i].pc = "done") =>
               LET doc == JSONparse(fs'[FilePath].data)
                   was == JSONparse(cb[i].before.data)
               IN  /\ doc.ok /\ ~Has(doc.val, i)
                   /\ was.ok => doc.val = Without(was.val, i)]_vars

====
